---- MODULE Spec2Model ----
(***************************************************************************)
(* Model of the search -> filter -> download -> dedup pipeline of main.py  *)
(* (run, filter_newer_results, download_result and its closures, the path  *)
(* helpers and the index load/save).  The site adapter and the network are *)
(* the environment: each answer is chosen when it is first asked for and   *)
(* then kept, so that a second run of the pipeline sees the same inputs.   *)
(*                                                                         *)
(* File names are sequences of one-character strings, so that              *)
(* safe_filename, os.path.splitext and ensure_unique_path are computed as  *)
(* the code computes them.  URLs, HTML documents and file contents are     *)
(* strings.  The wall-clock fields of the records (downloaded_at, time)    *)
(* are left out.                                                           *)
(***************************************************************************)
EXTENDS Integers, Sequences, FiniteSets, TLC

(* ------------------------------ bounds --------------------------------- *)

\* number of consecutive runs of the pipeline over the same inputs
MaxRuns == 2

\* longest list of links one search returns
MaxResults == 2

\* longest sequence of SiteRegistry.ensure_generic calls
MaxCalls == 4
MaxNodes == 2

\* most tasks started from the launcher window
MaxTasks == 3

\* most lines one read loop reads from the output of its worker process
MaxLines == 1

(* ----------------------- Python values --------------------------------- *)

\* an absent publish_time (None); defined times are >= 0
NoTime == -1

\* an absent str (None) and the empty str are both falsy; names are
\* sequences of characters and None is modelled by the empty sequence
NoName == << >>

\* an absent path (None)
NoPath == [dir |-> << >>, name |-> << >>]

\* detail_info.html = None
NoHtml == ""

(* ----------------------- path helpers ---------------------------------- *)

IllegalChars == {"\\", "/", ":", "*", "?", "\"", "<", ">", "|"}

\* the characters str.isspace() holds for, which str.strip() and
\* str.split() remove: space, tab, line feed, carriage return, form feed,
\* and the control characters 0x0B, 0x1C, 0x1D, 0x1E, 0x1F (written as they
\* are). The names and texts of the model are ASCII; the other characters
\* of this class (U+0085, U+00A0, U+3000, ...) do not occur in them.
Whitespace ==
    {" ", "\t", "\n", "\r", "\f", "", "", "", "", ""}

RECURSIVE LStrip(_)
LStrip(s) ==
    IF s # << >> /\ Head(s) \in Whitespace THEN LStrip(Tail(s)) ELSE s

RECURSIVE RStrip(_)
RStrip(s) ==
    IF s # << >> /\ s[Len(s)] \in Whitespace
    THEN RStrip(SubSeq(s, 1, Len(s) - 1))
    ELSE s

\* str.strip()
Strip(s) == RStrip(LStrip(s))

\* the name "file" that safe_filename falls back to
DefaultFileName == <<"f", "i", "l", "e">>

safe_filename(value) ==
    LET kept == Strip(SelectSeq(value, LAMBDA ch : ch \notin IllegalChars))
    IN  IF kept = << >> THEN DefaultFileName ELSE kept

\* str.rfind(ch) + 1: the last position of ch in s, 0 when there is none
RFind(s, ch) ==
    LET hits == {i \in 1..Len(s) : s[i] = ch}
    IN  IF hits = {} THEN 0 ELSE CHOOSE i \in hits : \A j \in hits : j <= i

\* os.path.splitext on a file name (a name holds no separator): the
\* extension starts at the last dot unless only dots precede it
splitext(name) ==
    LET dot == RFind(name, ".")
    IN  IF dot > 0 /\ \E i \in 1..(dot - 1) : name[i] # "."
        THEN <<SubSeq(name, 1, dot - 1), SubSeq(name, dot, Len(name))>>
        ELSE <<name, << >> >>

DigitChar == <<"0", "1", "2", "3", "4", "5", "6", "7", "8", "9">>

\* str(counter) for counter >= 0
RECURSIVE Decimal(_)
Decimal(n) ==
    IF n < 10 THEN <<DigitChar[n + 1]>>
    ELSE Decimal(n \div 10) \o <<DigitChar[(n % 10) + 1]>>

\* os.path.join(dir, name)
JoinPath(dir, name) == [dir |-> dir, name |-> name]

\* os.path.exists(path) on the disk `disk` (a function from paths to bytes)
PathExists(disk, path) == path \in DOMAIN disk

RECURSIVE UniqueFrom(_, _, _, _)
UniqueFrom(disk, path, base_ext, counter) ==
    LET candidate == JoinPath(path.dir,
                              base_ext[1] \o <<"_">> \o Decimal(counter) \o base_ext[2])
    IN  IF ~PathExists(disk, candidate) THEN candidate
        ELSE UniqueFrom(disk, path, base_ext, counter + 1)

\* mutant: the path is used as it is
ensure_unique_path_Overwrite(disk, path) == path

\* the argument is evaluated once, as at a Python call: p is its value
ensure_unique_path(disk, path) ==
    CHOOSE unique \in { IF ~PathExists(disk, p) THEN p
                        ELSE UniqueFrom(disk, p, splitext(p.name), 1) : p \in {path} } :
        TRUE

\* hashlib.sha256 of a file's bytes; distinct bytes give distinct digests
Sha256(bytes) == <<"sha256", bytes>>

sha256_file(disk, path) == Sha256(disk[path])

(* ----------------------- the inputs of a run ---------------------------- *)

SecondsPerDay == 24 * 60 * 60

\* the reference time of the rows: 1970-01-02 00:00:00
RefTime == SecondsPerDay

\* result.publish_time.strftime("%Y%m%d"), or "unknown_date"; the times of
\* the model lie in January 1970
publish_date(t) ==
    IF t = NoTime
    THEN <<"u", "n", "k", "n", "o", "w", "n", "_", "d", "a", "t", "e">>
    ELSE Decimal(19700101 + (t \div SecondsPerDay))

PageUrl == "https://a.example/n/1"
FileUrl == "https://a.example/f/doc.pdf"
MirrorUrl == "https://a.example/g/doc.pdf"

\* urlparse(url).netloc of the URLs of the model
netloc(url) ==
    CASE url = "https://A.Example/list" -> "A.Example"
      [] url = "https://b.example/" -> "b.example"
      [] url = "http://B.EXAMPLE:8080/x" -> "B.EXAMPLE:8080"
      [] OTHER -> "a.example"

\* str.lower() of the netlocs of the model
lower(text) ==
    CASE text = "A.Example" -> "a.example"
      [] text = "B.EXAMPLE:8080" -> "b.example:8080"
      [] OTHER -> text

\* str.strip() of the URLs of the model
UrlStrip(url) ==
    CASE url = " " -> ""
      [] url = " https://a.example/f/doc.pdf " -> FileUrl
      [] OTHER -> url

\* os.path.basename(urlparse(url).path) of the URLs of the model
UrlPathName(url) ==
    CASE url = PageUrl -> <<"1">>
      [] url = FileUrl -> <<"d", "o", "c", ".", "p", "d", "f">>
      [] url = MirrorUrl -> <<"d", "o", "c", ".", "p", "d", "f">>
      [] OTHER -> << >>

\* extract_filename_from_url: None (here the empty name) when the path has
\* no last component
extract_filename_from_url(url) == UrlPathName(url)

build_file_name_from_url(url, fallback_prefix, index) ==
    LET name == extract_filename_from_url(url)
    IN  IF name # << >> THEN safe_filename(name)
        ELSE safe_filename(fallback_prefix \o <<"_">> \o Decimal(index)
                           \o splitext(UrlPathName(url))[2])

\* RowItem values as read_rows returns them (publish_time always present)
Rows ==
    << [file_name |-> "notice-7", url |-> "https://a.example/search?q={query}",
        publish_time |-> RefTime],
       [file_name |-> "notice-8", url |-> "https://a.example/list",
        publish_time |-> RefTime] >>

FreshPage == [title |-> <<"T">>, url |-> PageUrl, publish_time |-> RefTime + 1]
FreshFile == [title |-> <<"T", "?", "\r">>, url |-> FileUrl, publish_time |-> RefTime + 1]
StalePage == [title |-> <<"T">>, url |-> PageUrl, publish_time |-> RefTime]
UndatedFile == [title |-> <<"T">>, url |-> FileUrl, publish_time |-> NoTime]

\* the SearchResult values the search page of a row can yield
SearchPool(row) ==
    IF row = 1 THEN {FreshPage, FreshFile, StalePage, UndatedFile}
    ELSE {FreshPage, FreshFile}

ResultLists(row) == UNION { [1..n -> SearchPool(row)] : n \in 0..MaxResults }

\* what adapter.search does: raise, or return a finite list of results
SearchChoices(row) ==
    {[raises |-> TRUE, results |-> << >>]}
        \cup {[raises |-> FALSE, results |-> rs] : rs \in ResultLists(row)}

AttDoc == [url |-> FileUrl, name |-> <<"d", "o", "c">>]
AttMirror == [url |-> MirrorUrl, name |-> NoName]
AttBlank == [url |-> "", name |-> NoName]
AttSpace == [url |-> " ", name |-> NoName]
AttPadded == [url |-> " https://a.example/f/doc.pdf ", name |-> <<"d", "o", "c">>]

\* what adapter.fetch_detail_info does: raise, or return a DetailInfo
\* (title None when the adapter found none, html None for a direct file)
DetailChoices ==
    { [raises |-> TRUE, title |-> NoName, html |-> NoHtml, attachments |-> << >>],
      [raises |-> FALSE, title |-> NoName, html |-> NoHtml, attachments |-> << >>],
      [raises |-> FALSE, title |-> <<"T">>, html |-> "<p>A</p>",
       attachments |-> << >>],
      [raises |-> FALSE, title |-> NoName, html |-> "A",
       attachments |-> <<AttBlank, AttSpace, AttDoc>>],
      [raises |-> FALSE, title |-> <<"T">>, html |-> "<script>x</script>",
       attachments |-> <<AttPadded, AttMirror>>] }

\* what the streamed GET of download_url does: "error" raises before the
\* target file is opened (requests.get / raise_for_status), "broken" raises
\* in iter_content after the file was opened and `bytes` were written,
\* "ok" delivers `bytes`
FetchChoices ==
    { [status |-> "ok", bytes |-> "A"],
      [status |-> "ok", bytes |-> "%PDF"],
      [status |-> "error", bytes |-> ""],
      [status |-> "broken", bytes |-> "%P"] }

\* what writing a result's detail HTML file does: succeed, raise on opening
\* the file ("html_error"), or raise in f.write after the file was opened
\* ("html_write_error"), which leaves the file on disk, empty
HtmlWriteChoices == {"ok", "html_error", "html_write_error"}

\* what writing a result's markdown file does, likewise
MarkdownWriteChoices == {"ok", "md_error", "md_write_error"}

(* ----------------------- HTML to markdown ------------------------------ *)

\* A parsed document is a tree of nodes: a string of the document
\* (name "#text", its characters in `text`) or a tag with its children; text
\* is a sequence of one-character strings.
NavigableString(text) == [name |-> "#text", text |-> text, href |-> << >>, children |-> << >>]
Tag(name, href, children) == [name |-> name, text |-> << >>, href |-> href, children |-> children]

\* "sep".join(parts)
RECURSIVE join(_, _)
join(sep, parts) ==
    IF parts = << >> THEN << >>
    ELSE IF Len(parts) = 1 THEN parts[1]
    ELSE parts[1] \o sep \o join(sep, Tail(parts))

\* str.strip(): leading and trailing whitespace removed
strip(value) ==
    LET inked == {i \in 1..Len(value) : value[i] \notin Whitespace}
    IN  IF inked = {} THEN << >>
        ELSE SubSeq(value, CHOOSE i \in inked : \A j \in inked : i <= j,
                           CHOOSE i \in inked : \A j \in inked : j <= i)

\* mutant: the text is taken as it stands in the document
_normalize_inline_text_Raw(value) == value

\* " ".join(value.split()): every run of whitespace becomes one space, none
\* is left at the ends
_normalize_inline_text(value) ==
    LET s == strip(value)
        kept == {i \in 1..Len(s) : s[i] \notin Whitespace \/ s[i + 1] \notin Whitespace}
        at(k) == CHOOSE i \in kept : Cardinality({j \in kept : j <= i}) = k
    IN  [k \in 1..Cardinality(kept) |->
            IF s[at(k)] \in Whitespace THEN " " ELSE s[at(k)]]

\* node.get_text(" ", strip=True): the strings below the node, stripped,
\* the empty ones left out, joined by one space
get_text(node) ==
    LET RECURSIVE strings(_)
        strings(n) ==
            IF n.name = "#text" THEN <<n.text>>
            ELSE join(<< >>, [i \in DOMAIN n.children |-> strings(n.children[i])])
        stripped == [i \in DOMAIN strings(node) |-> strip(strings(node)[i])]
    IN  join(<<" ">>, SelectSeq(stripped, LAMBDA text : text # << >>))

RECURSIVE _inline_to_markdown(_)
_inline_to_markdown(node) ==
    IF node.name = "#text" THEN _normalize_inline_text(node.text)
    ELSE IF node.name = "br" THEN <<"\n">>
    ELSE
        LET children_text ==
                strip(join(<< >>, [i \in DOMAIN node.children |->
                                      _inline_to_markdown(node.children[i])]))
            href == strip(node.href)
            label == IF children_text # << >> THEN children_text
                     ELSE _normalize_inline_text(get_text(node))
        IN  CASE node.name \in {"strong", "b"} ->
                    IF children_text # << >>
                    THEN <<"*", "*">> \o children_text \o <<"*", "*">> ELSE << >>
              [] node.name \in {"em", "i"} ->
                    IF children_text # << >>
                    THEN <<"*">> \o children_text \o <<"*">> ELSE << >>
              [] node.name = "a" ->
                    IF href # << >> /\ label # << >>
                    THEN <<"[">> \o label \o <<"]", "(">> \o href \o <<")">>
                    ELSE label
              [] OTHER -> children_text

\* some tag below the node is a block tag
_has_block_descendants(node) ==
    LET RECURSIVE names(_)
        names(n) ==
            UNION { {n.children[i].name} \cup names(n.children[i]) : i \in DOMAIN n.children }
    IN  names(node) \cap {"h1", "h2", "h3", "h4", "h5", "h6", "p", "ul", "ol", "li",
                          "table", "blockquote"} # {}

\* `for junk in soup.select("script,style,noscript"): junk.decompose()`
RECURSIVE decompose(_)
decompose(node) ==
    LET kept == SelectSeq(node.children,
                          LAMBDA child : child.name \notin {"script", "style", "noscript"})
    IN  [node EXCEPT !.children = [i \in DOMAIN kept |-> decompose(kept[i])]]

\* `soup.body or soup`: the first body tag of the document, else the document
root(soup) ==
    LET RECURSIVE bodies(_)
        bodies(n) ==
            join(<< >>, [i \in DOMAIN n.children |->
                            (IF n.children[i].name = "body" THEN <<n.children[i]>> ELSE << >>)
                            \o bodies(n.children[i])])
    IN  IF bodies(soup) = << >> THEN soup ELSE bodies(soup)[1]

\* the value as the one line it makes, or no line when it is empty
Line(prefix, text) == IF text # << >> THEN <<prefix \o text>> ELSE << >>

\* walk: the lines the children of the node append, in document order
RECURSIVE walk(_)
walk(node) ==
    LET items(list) ==
            LET lis == SelectSeq(list.children, LAMBDA child : child.name = "li")
                texts == [i \in DOMAIN lis |-> strip(_inline_to_markdown(lis[i]))]
                item == SelectSeq(texts, LAMBDA text : text # << >>)
            IN  [idx \in DOMAIN item |->
                    (IF list.name = "ol" THEN <<ToString(idx), ".", " ">> ELSE <<"-", " ">>)
                    \o item[idx]]
        lines(child) ==
            CASE child.name = "#text" -> Line(<< >>, _normalize_inline_text(child.text))
              [] child.name \in {"script", "style", "noscript"} -> << >>
              [] child.name \in {"h1", "h2", "h3", "h4", "h5", "h6"} ->
                    Line([i \in 1..(CHOOSE level \in 1..6 :
                                       child.name = "h" \o ToString(level)) |-> "#"]
                         \o <<" ">>,
                         _normalize_inline_text(get_text(child)))
              [] child.name = "p" -> Line(<< >>, strip(_inline_to_markdown(child)))
              [] child.name \in {"ul", "ol"} -> items(child)
              [] child.name = "blockquote" ->
                    Line(<<">", " ">>, strip(_inline_to_markdown(child)))
              [] child.name = "div" ->
                    IF _has_block_descendants(child) THEN walk(child)
                    ELSE Line(<< >>, strip(_inline_to_markdown(child)))
              [] OTHER -> walk(child)
    IN  join(<< >>, [i \in DOMAIN node.children |-> lines(node.children[i])])

\* _html_to_markdown from the parsed document on: the characters returned
Markdown(soup) ==
    strip(join(<<"\n", "\n">>,
               SelectSeq(walk(root(decompose(soup))), LAMBDA line : line # << >>)))

\* the str of a sequence of characters
RECURSIVE Str(_)
Str(chars) == IF chars = << >> THEN "" ELSE chars[1] \o Str(Tail(chars))

\* BeautifulSoup(html, "html.parser") on the HTML documents of the model
BeautifulSoup(html) ==
    LET A == NavigableString(<<"A">>)
        B == NavigableString(<<"B">>)
    IN  Tag("[document]", << >>,
            CASE html = "<p>A</p>" -> <<Tag("p", << >>, <<A>>)>>
              [] html = "A" -> <<A>>
              [] html = "<script>x</script>" ->
                    <<Tag("script", << >>, <<NavigableString(<<"x">>)>>)>>
              [] html = "<p>A</p><p>B</p>" ->
                    <<Tag("p", << >>, <<A>>), Tag("p", << >>, <<B>>)>>
              [] OTHER -> << >>)

\* the markdown of the HTML documents of the model
MarkdownOf ==
    [html \in {"", "<p>A</p>", "A", "<script>x</script>", "<p>A</p><p>B</p>"} |->
        Str(Markdown(BeautifulSoup(html)))]

_html_to_markdown(html) == MarkdownOf[html]

(* ------------------------------ state ---------------------------------- *)

VARIABLES
    run,             \* number of the current run of the pipeline
    pc,              \* control point of run() / download_result()
    dry_run,         \* config["dry_run"]
    index_file,      \* the index JSON on disk: [exists, items]
    files,           \* files under download_root: path -> bytes
    dirs,            \* directories made by os.makedirs
    failures,        \* rows of the failures CSV
    successes,       \* rows of the success CSV
    index_data,      \* index_data["items"] in memory
    rowIdx,          \* position of `for row in rows`
    results,         \* list(adapter.search(row.file_name))
    newer,           \* filter_newer_results(results, row.publish_time)
    resIdx,          \* position of `for result in newer`
    existing_urls,   \* download_result: set of indexed urls
    existing_hashes, \* download_result: set of indexed sha256
    detail_info,     \* download_result: what fetch_detail_info returned
    target_dir,      \* download_result: the result's folder
    downloaded_any,  \* download_result
    main_path,       \* download_result
    saved_path,      \* download_result: what write_html returned
    target_path,     \* the closures' target_path / md_path once made unique
    attIdx,          \* position of `for idx, attachment in enumerate(...)`
    items_at_call,   \* history: len(index_data["items"]) when download_result
                     \* built existing_urls
    searchEnv,       \* answers adapter.search has given, per row
    detailEnv,       \* answers fetch_detail_info has given, per url
    fetchEnv,        \* answers the streamed GET has given, per url
    writeEnv,        \* outcomes the detail writes have had, per result url
                     \* and file (<<url, "html">>, <<url, "md">>)
    runs,            \* how many times the pipeline is run
    index_file_at_start,  \* history: `index_file` when the run started
    files_at_start,  \* history: `files` when the run started
    saves,           \* history: number of save_index calls of this run
    _adapters,       \* SiteRegistry._adapters: domain -> adapter object
    adapter_count,   \* number of adapter objects constructed so far
    ensure_calls,    \* history: the ensure_generic calls and what they returned
    row_searches,    \* run(): per row searched, its url and keyword, the adapter and the request url
    search_state,    \* PlaywrightRuleAdapter.search: idle, backfill, returned, raised
    search_rules,    \* the adapter's detail_date rules: [enabled, fetch_mode]
    search_results,  \* search: the list _parse_results returned
    search_idx,      \* search: position of `for result in results`
    detail_fetch,    \* what the last _fill_detail_date call met
    md_state,        \* _html_to_markdown: idle, parsed, converted
    md_html,         \* _html_to_markdown: the argument, as html.parser reads it
    md_soup,         \* _html_to_markdown: the soup, which decompose() changes
    md_out,          \* _html_to_markdown: the characters returned
    md_outs,         \* history: what the calls on this HTML have returned
    gs_state,        \* GenericHtmlAdapter.search: idle, links, returned, raised
    gs_links,        \* search: soup.find_all("a", href=True)
    gs_idx,          \* search: position of `for link in ...`
    gs_results,      \* search: `results`
    gs_year,         \* search: the year of the day the call runs on (0 outside
                     \* a call)
    sy_state,        \* sync_local_to_cloud: idle, items, returned, failed
    sy_items,        \* sync: the files of the local folder, in listing order
    sy_idx,          \* sync: position of `for item in os.listdir(local_path)`
    cloud_modified_time,  \* sync: the local variable, NoTime while unbound
    sy_ops,          \* sync: the renames and uploads done remotely
    buttons,         \* launcher: the state of btn_main, btn_upload, btn_stop
    _current_proc,   \* launcher: log._current_proc, 0 is None, else the task
    tasks,           \* launcher: per task started, its thread and its process
    after_queue,     \* launcher: the callbacks scheduled with after(0, ...)
    log_errors       \* launcher: the "not found" lines in the log

durable == <<index_file, files, dirs, failures, successes>>
loop == <<rowIdx, results, newer, resIdx>>
frame == <<existing_urls, existing_hashes, detail_info, target_dir,
           downloaded_any, main_path, saved_path, target_path, attIdx,
           items_at_call>>
env == <<searchEnv, detailEnv, fetchEnv, writeEnv>>
hist == <<runs, index_file_at_start, files_at_start, saves>>
engine == <<run, pc, dry_run, index_data, durable, loop, frame, env, hist>>
registry == <<_adapters, adapter_count, ensure_calls, row_searches>>
backfill == <<search_state, search_rules, search_results, search_idx, detail_fetch>>
converter == <<md_state, md_html, md_soup, md_out, md_outs>>
heuristic == <<gs_state, gs_links, gs_idx, gs_results, gs_year>>
sync == <<sy_state, sy_items, sy_idx, cloud_modified_time, sy_ops>>
launcher == <<buttons, _current_proc, tasks, after_queue, log_errors>>
aux == <<registry, backfill, converter, heuristic, sync, launcher>>

\* what the steps of one component leave alone
beside_registry == <<engine, backfill, converter, heuristic, sync, launcher>>
beside_backfill == <<engine, registry, converter, heuristic, sync, launcher>>
beside_converter == <<engine, registry, backfill, heuristic, sync, launcher>>
beside_heuristic == <<engine, registry, backfill, converter, sync, launcher>>
beside_sync == <<engine, registry, backfill, converter, heuristic, launcher>>
beside_launcher == <<engine, registry, backfill, converter, heuristic, sync>>
vars == <<engine, aux>>

\* a SiteRegistry just constructed
RegistryIdle ==
    /\ _adapters = << >>
    /\ adapter_count = 0
    /\ ensure_calls = << >>
    /\ row_searches = << >>

\* no search of the rule-driven adapter under way
BackfillIdle ==
    /\ search_state = "idle"
    /\ search_rules = [enabled |-> FALSE, fetch_mode |-> "requests"]
    /\ search_results = << >>
    /\ search_idx = 0
    /\ detail_fetch = "none"

\* no conversion under way
ConverterIdle ==
    /\ md_state = "idle"
    /\ md_html = Tag("[document]", << >>, << >>)
    /\ md_soup = Tag("[document]", << >>, << >>)
    /\ md_out = << >>
    /\ md_outs = << >>

\* no search of the heuristic adapter under way
HeuristicIdle ==
    /\ gs_state = "idle"
    /\ gs_links = << >>
    /\ gs_idx = 0
    /\ gs_results = << >>
    /\ gs_year = 0

\* no folder sync under way
SyncIdle ==
    /\ sy_state = "idle"
    /\ sy_items = << >>
    /\ sy_idx = 0
    /\ cloud_modified_time = NoTime
    /\ sy_ops = << >>

\* the launcher window as main() builds it
LauncherIdle ==
    /\ buttons = [main |-> "normal", upload |-> "normal", stop |-> "disabled"]
    /\ _current_proc = 0
    /\ tasks = << >>
    /\ after_queue = << >>
    /\ log_errors = 0

\* the components outside run() at rest
AuxIdle ==
    RegistryIdle /\ BackfillIdle /\ ConverterIdle /\ HeuristicIdle /\ SyncIdle /\ LauncherIdle

NoDetail == [title |-> NoName, html |-> NoHtml, attachments |-> << >>]

\* the locals of download_result outside a call
FrameIdle ==
    /\ existing_urls' = {}
    /\ existing_hashes' = {}
    /\ detail_info' = NoDetail
    /\ target_dir' = << >>
    /\ downloaded_any' = FALSE
    /\ main_path' = NoPath
    /\ saved_path' = NoPath
    /\ target_path' = NoPath
    /\ attIdx' = 0
    /\ items_at_call' = 0

\* what an earlier run has left behind: nothing, or one direct file with its
\* index entry
PriorPath == [dir |-> <<"downloads", "a.example", publish_date(RefTime + 1), <<"T">> >>,
              name |-> <<"d", "o", "c", ".", "p", "d", "f">>]

PriorEntry ==
    [title |-> FreshFile.title, url |-> FileUrl, publish_time |-> RefTime + 1,
     path |-> PriorPath, sha256 |-> Sha256("%PDF"), kind |-> "direct_file"]

FirstRun ==
    /\ dry_run \in BOOLEAN
    /\ index_file = [exists |-> FALSE, items |-> << >>]
    /\ files = << >>
    /\ dirs = {}

LaterRun ==
    /\ dry_run \in BOOLEAN
    /\ index_file = [exists |-> TRUE, items |-> <<PriorEntry>>]
    /\ files = (PriorPath :> "%PDF")
    /\ dirs = {PriorPath.dir}

InitRun ==
    /\ run = 1
    /\ pc = "start"
    /\ FirstRun \/ LaterRun
    /\ failures = << >>
    /\ successes = << >>
    /\ index_data = << >>
    /\ rowIdx = 0
    /\ results = << >>
    /\ newer = << >>
    /\ resIdx = 0
    /\ existing_urls = {}
    /\ existing_hashes = {}
    /\ detail_info = NoDetail
    /\ target_dir = << >>
    /\ downloaded_any = FALSE
    /\ main_path = NoPath
    /\ saved_path = NoPath
    /\ target_path = NoPath
    /\ attIdx = 0
    /\ items_at_call = 0
    /\ searchEnv = << >>
    /\ detailEnv = << >>
    /\ fetchEnv = << >>
    /\ writeEnv = << >>
    /\ index_file_at_start = index_file
    /\ files_at_start = files
    /\ saves = 0
    /\ AuxIdle

\* one run of the pipeline
Init == InitRun /\ runs = 1

\* the pipeline run MaxRuns times over the same inputs
InitRerun == InitRun /\ runs = MaxRuns

(* --------------------------- helpers ----------------------------------- *)

\* the environment answers a question the first time it is asked and gives
\* the same answer ever after
Ask(memo, key, choices) == IF key \in DOMAIN memo THEN {memo[key]} ELSE choices
Tell(memo, key, answer) == IF key \in DOMAIN memo THEN memo ELSE (key :> answer) @@ memo

Row == Rows[rowIdx]
Result == newer[resIdx]

IndexedUrls(items) == {items[i].url : i \in DOMAIN items}
IndexedHashes(items) == {items[i].sha256 : i \in DOMAIN items}

\* mutant: the boundary is inclusive
filter_newer_results_Inclusive(rs, since) ==
    SelectSeq(rs, LAMBDA item : item.publish_time # NoTime /\ item.publish_time >= since)

filter_newer_results(rs, since) ==
    SelectSeq(rs, LAMBDA item : item.publish_time # NoTime /\ item.publish_time > since)

\* os.remove(path)
RemoveFile(disk, path) == [p \in (DOMAIN disk) \ {path} |-> disk[p]]

\* open(path, "w").write(bytes)
WriteFile(disk, path, bytes) == (path :> bytes) @@ disk

\* the dict record_file appends
IndexEntry(url, path, file_hash, kind) ==
    [title |-> IF detail_info.title # NoName THEN detail_info.title ELSE Result.title,
     url |-> url,
     publish_time |-> Result.publish_time,
     path |-> path,
     sha256 |-> file_hash,
     kind |-> kind]

\* mutant: the new entry is put in front of the list
record_file_Prepend(url, path, file_hash, kind) ==
    /\ index_data' = <<IndexEntry(url, path, file_hash, kind)>> \o index_data
    /\ existing_urls' = existing_urls \cup {url}
    /\ existing_hashes' = existing_hashes \cup {file_hash}

\* record_file: the entry is appended to index_data["items"] and the two
\* sets follow
record_file(url, path, file_hash, kind) ==
    /\ index_data' = Append(index_data, IndexEntry(url, path, file_hash, kind))
    /\ existing_urls' = existing_urls \cup {url}
    /\ existing_hashes' = existing_hashes \cup {file_hash}

\* mutant: the hash check is left out
IsDuplicateHash_Never(file_hash) == FALSE

\* `file_hash in existing_hashes` of download_url, write_html, write_markdown
IsDuplicateHash(file_hash) == file_hash \in existing_hashes

\* mutant: download_url does not look the url up
IsIndexedUrl_Never(url) == FALSE

\* `url in existing_urls` of download_url
IsIndexedUrl(url) == url \in existing_urls

\* the row a failure appends to the failures CSV
FailureRow(url, reason) == [file_name |-> Row.file_name, url |-> url, reason |-> reason]

\* `continue` of the loop over rows, and its exit to save_index
EndRow ==
    /\ results' = << >>
    /\ newer' = << >>
    /\ resIdx' = 0
    /\ IF rowIdx < Len(Rows)
       THEN rowIdx' = rowIdx + 1 /\ pc' = "search"
       ELSE rowIdx' = 0 /\ pc' = "save"

\* the end of one iteration of the loop over newer results
EndResult ==
    /\ FrameIdle
    /\ IF resIdx < Len(newer)
       THEN resIdx' = resIdx + 1 /\ pc' = "download" /\ UNCHANGED <<rowIdx, results, newer>>
       ELSE EndRow

(* --------------------------- run() ------------------------------------- *)

\* ensure_index: the items of the index file, or the empty list
ensure_index == IF index_file.exists THEN index_file.items ELSE << >>

\* run() up to the loop over the rows; a finished process may be run again
StartRun ==
    /\ \/ pc = "start"
       \/ pc = "done" /\ run < runs
    /\ run' = IF pc = "start" THEN run ELSE run + 1
    /\ index_data' = ensure_index
    /\ index_file_at_start' = index_file
    /\ files_at_start' = files
    /\ saves' = 0
    /\ rowIdx' = 1
    /\ pc' = "search"
    /\ UNCHANGED <<dry_run, durable, results, newer, resIdx, frame, env, runs>>
    /\ UNCHANGED aux

\* mutant: a failed search ends the loop over the rows
SearchRaises_Break ==
    /\ pc = "search"
    /\ \E answer \in Ask(searchEnv, rowIdx, SearchChoices(rowIdx)) :
        /\ answer.raises
        /\ searchEnv' = Tell(searchEnv, rowIdx, answer)
    /\ failures' = Append(failures, FailureRow(Row.url, "search_error"))
    /\ pc' = "save"
    /\ UNCHANGED <<run, dry_run, index_data, index_file, files, dirs, successes,
                   loop, frame, detailEnv, fetchEnv, writeEnv, hist>>
    /\ UNCHANGED aux

\* adapter.search raises: one failure row, on to the next row
SearchRaises ==
    /\ pc = "search"
    /\ \E answer \in Ask(searchEnv, rowIdx, SearchChoices(rowIdx)) :
        /\ answer.raises
        /\ searchEnv' = Tell(searchEnv, rowIdx, answer)
    /\ failures' = Append(failures, FailureRow(Row.url, "search_error"))
    /\ EndRow
    /\ UNCHANGED <<run, dry_run, index_data, index_file, files, dirs, successes,
                   frame, detailEnv, fetchEnv, writeEnv, hist>>
    /\ UNCHANGED aux

\* adapter.search returns: the results are filtered by freshness
SearchReturns ==
    /\ pc = "search"
    /\ \E answer \in Ask(searchEnv, rowIdx, SearchChoices(rowIdx)) :
        /\ ~answer.raises
        /\ searchEnv' = Tell(searchEnv, rowIdx, answer)
        /\ results' = answer.results
        /\ newer' = filter_newer_results(answer.results, Row.publish_time)
    /\ IF newer' = << >>
       THEN pc' = "filtered" /\ resIdx' = 0
       ELSE pc' = "download" /\ resIdx' = 1
    /\ UNCHANGED <<run, dry_run, index_data, durable, rowIdx, frame, detailEnv,
                   fetchEnv, writeEnv, hist>>
    /\ UNCHANGED aux

\* `if not newer: continue`
NoNewer ==
    /\ pc = "filtered"
    /\ EndRow
    /\ UNCHANGED <<run, dry_run, index_data, durable, frame, env, hist>>
    /\ UNCHANGED aux

\* mutant: in a dry run the candidate is handed to download_result
DryRunResult_Downloads ==
    /\ pc = "download"
    /\ dry_run
    /\ \E answer \in Ask(detailEnv, Result.url, DetailChoices) :
        /\ ~answer.raises
        /\ detailEnv' = Tell(detailEnv, Result.url, answer)
        /\ detail_info' =
              [title |-> IF answer.title # NoName THEN answer.title ELSE Result.title,
               html |-> answer.html,
               attachments |-> answer.attachments]
    /\ existing_urls' = IndexedUrls(index_data)
    /\ existing_hashes' = IndexedHashes(index_data)
    /\ items_at_call' = Len(index_data)
    /\ target_dir' = <<"downloads", netloc(Row.url), publish_date(Result.publish_time),
                       safe_filename(detail_info'.title)>>
    /\ dirs' = dirs \cup {target_dir'}
    /\ downloaded_any' = FALSE
    /\ main_path' = NoPath
    /\ saved_path' = NoPath
    /\ target_path' = NoPath
    /\ attIdx' = 0
    /\ pc' = "main"
    /\ UNCHANGED <<run, dry_run, index_data, index_file, files, failures, successes,
                   loop, searchEnv, fetchEnv, writeEnv, hist>>
    /\ UNCHANGED aux

\* `if dry_run: continue`
DryRunResult ==
    /\ pc = "download"
    /\ dry_run
    /\ EndResult
    /\ UNCHANGED <<run, dry_run, index_data, durable, env, hist>>
    /\ UNCHANGED aux

(* ----------------------- download_result() ----------------------------- *)

\* mutant: download_result does not look the result's url up
AlreadyDownloaded_Never(url) == FALSE

\* `result.url in existing_urls` on entry, with existing_urls just built
\* from the index
AlreadyDownloaded(url) == url \in IndexedUrls(index_data)

\* the result's url is indexed: download_result returns None
SkipIndexed ==
    /\ pc = "download"
    /\ ~dry_run
    /\ AlreadyDownloaded(Result.url)
    /\ EndResult
    /\ UNCHANGED <<run, dry_run, index_data, durable, env, hist>>
    /\ UNCHANGED aux

\* mutant: the exception of fetch_detail_info leaves run()
DetailRaises_Propagates ==
    /\ pc = "download"
    /\ ~dry_run
    /\ ~AlreadyDownloaded(Result.url)
    /\ \E answer \in Ask(detailEnv, Result.url, DetailChoices) :
        /\ answer.raises
        /\ detailEnv' = Tell(detailEnv, Result.url, answer)
    /\ pc' = "raised"
    /\ UNCHANGED <<run, dry_run, index_data, durable, loop, frame,
                   searchEnv, fetchEnv, writeEnv, hist>>
    /\ UNCHANGED aux

\* fetch_detail_info raises: run() appends one failure row
DetailRaises ==
    /\ pc = "download"
    /\ ~dry_run
    /\ ~AlreadyDownloaded(Result.url)
    /\ \E answer \in Ask(detailEnv, Result.url, DetailChoices) :
        /\ answer.raises
        /\ detailEnv' = Tell(detailEnv, Result.url, answer)
    /\ failures' = Append(failures, FailureRow(Result.url, "download_error"))
    /\ EndResult
    /\ UNCHANGED <<run, dry_run, index_data, index_file, files, dirs, successes,
                   searchEnv, fetchEnv, writeEnv, hist>>
    /\ UNCHANGED aux

\* fetch_detail_info returns: the target folder is made
DetailReturns ==
    /\ pc = "download"
    /\ ~dry_run
    /\ ~AlreadyDownloaded(Result.url)
    /\ \E answer \in Ask(detailEnv, Result.url, DetailChoices) :
        /\ ~answer.raises
        /\ detailEnv' = Tell(detailEnv, Result.url, answer)
        /\ detail_info' =
              [title |-> IF answer.title # NoName THEN answer.title ELSE Result.title,
               html |-> answer.html,
               attachments |-> answer.attachments]
    /\ existing_urls' = IndexedUrls(index_data)
    /\ existing_hashes' = IndexedHashes(index_data)
    /\ items_at_call' = Len(index_data)
    /\ target_dir' = <<"downloads", netloc(Row.url), publish_date(Result.publish_time),
                       safe_filename(detail_info'.title)>>
    /\ dirs' = dirs \cup {target_dir'}
    /\ downloaded_any' = FALSE
    /\ main_path' = NoPath
    /\ saved_path' = NoPath
    /\ target_path' = NoPath
    /\ attIdx' = 0
    /\ pc' = "main"
    /\ UNCHANGED <<run, dry_run, index_data, index_file, files, failures, successes,
                   loop, searchEnv, fetchEnv, writeEnv, hist>>
    /\ UNCHANGED aux

\* what no step between fetch_detail_info and the return changes
settled == <<run, dry_run, index_file, dirs, loop, searchEnv, detailEnv, hist,
             detail_info, target_dir, items_at_call>>

\* entering `for idx, attachment in enumerate(detail_info.attachments, start=1)`
ToAttachments == pc' = "attachments" /\ attIdx' = 1

HtmlName == <<"d", "e", "t", "a", "i", "l">> \o target_dir[4] \o <<".", "h", "t", "m", "l">>

\* mutant: a failed HTML write abandons the rest of the row
WriteHtmlRaises_EndsRow ==
    /\ pc = "main"
    /\ detail_info.html # NoHtml
    /\ \E outcome \in Ask(writeEnv, <<Result.url, "html">>, HtmlWriteChoices) :
        /\ outcome \in {"html_error", "html_write_error"}
        /\ writeEnv' = Tell(writeEnv, <<Result.url, "html">>, outcome)
        /\ files' = IF outcome = "html_write_error"
                    THEN WriteFile(files,
                                   ensure_unique_path(files, JoinPath(target_dir, HtmlName)),
                                   "")
                    ELSE files
    /\ failures' = Append(failures, FailureRow(Result.url, "download_error"))
    /\ FrameIdle
    /\ EndRow
    /\ UNCHANGED <<run, dry_run, index_data, index_file, dirs, successes,
                   searchEnv, detailEnv, fetchEnv, hist>>
    /\ UNCHANGED aux

\* write_html raises, on opening the file or in f.write, which leaves the
\* file it opened at the unique path, empty and not recorded: run() appends
\* one failure row
WriteHtmlRaises ==
    /\ pc = "main"
    /\ detail_info.html # NoHtml
    /\ \E outcome \in Ask(writeEnv, <<Result.url, "html">>, HtmlWriteChoices) :
        /\ outcome \in {"html_error", "html_write_error"}
        /\ writeEnv' = Tell(writeEnv, <<Result.url, "html">>, outcome)
        /\ files' = IF outcome = "html_write_error"
                    THEN WriteFile(files,
                                   ensure_unique_path(files, JoinPath(target_dir, HtmlName)),
                                   "")
                    ELSE files
    /\ failures' = Append(failures, FailureRow(Result.url, "download_error"))
    /\ EndResult
    /\ UNCHANGED <<run, dry_run, index_data, index_file, dirs, successes,
                   searchEnv, detailEnv, fetchEnv, hist>>
    /\ UNCHANGED aux

\* write_html up to the write: the path is made unique, the HTML written
WriteHtmlFile ==
    /\ pc = "main"
    /\ detail_info.html # NoHtml
    /\ \E outcome \in Ask(writeEnv, <<Result.url, "html">>, HtmlWriteChoices) :
        /\ outcome \notin {"html_error", "html_write_error"}
        /\ writeEnv' = Tell(writeEnv, <<Result.url, "html">>, outcome)
    /\ target_path' = ensure_unique_path(files, JoinPath(target_dir, HtmlName))
    /\ files' = WriteFile(files, target_path', detail_info.html)
    /\ pc' = "html_hash"
    /\ UNCHANGED <<settled, index_data, failures, successes, existing_urls,
                   existing_hashes, downloaded_any, main_path, saved_path, attIdx,
                   fetchEnv>>
    /\ UNCHANGED aux

\* mutant: the duplicate file stays on disk
HtmlDuplicate_KeepsFile ==
    /\ pc = "html_hash"
    /\ IsDuplicateHash(sha256_file(files, target_path))
    /\ target_path' = NoPath
    /\ ToAttachments
    /\ UNCHANGED <<settled, writeEnv, files, index_data, failures, successes,
                   existing_urls, existing_hashes, downloaded_any, main_path,
                   saved_path, fetchEnv>>
    /\ UNCHANGED aux

\* write_html: the hash is indexed, the file is removed, None is returned
HtmlDuplicate ==
    /\ pc = "html_hash"
    /\ IsDuplicateHash(sha256_file(files, target_path))
    /\ files' = RemoveFile(files, target_path)
    /\ target_path' = NoPath
    /\ ToAttachments
    /\ UNCHANGED <<settled, writeEnv, index_data, failures, successes, existing_urls,
                   existing_hashes, downloaded_any, main_path, saved_path, fetchEnv>>
    /\ UNCHANGED aux

\* write_html: the file is recorded as detail_html
HtmlRecorded ==
    /\ pc = "html_hash"
    /\ ~IsDuplicateHash(sha256_file(files, target_path))
    /\ record_file(Result.url, target_path, sha256_file(files, target_path), "detail_html")
    /\ saved_path' = target_path
    /\ target_path' = NoPath
    /\ pc' = "markdown"
    /\ UNCHANGED <<settled, writeEnv, files, failures, successes, downloaded_any, main_path,
                   attIdx, fetchEnv>>
    /\ UNCHANGED aux

\* mutant: an empty conversion is written to a markdown file all the same
MarkdownEmpty_Written ==
    /\ pc = "markdown"
    /\ _html_to_markdown(detail_info.html) = ""
    /\ target_path' = ensure_unique_path(files,
                          JoinPath(saved_path.dir,
                                   splitext(saved_path.name)[1] \o <<".", "m", "d">>))
    /\ files' = WriteFile(files, target_path', "")
    /\ pc' = "md_hash"
    /\ UNCHANGED <<settled, writeEnv, index_data, failures, successes, existing_urls,
                   existing_hashes, downloaded_any, main_path, saved_path, attIdx,
                   fetchEnv>>
    /\ UNCHANGED aux

\* mutant: an empty conversion is treated as an error of the result
MarkdownEmpty_Fails ==
    /\ pc = "markdown"
    /\ _html_to_markdown(detail_info.html) = ""
    /\ failures' = Append(failures, FailureRow(Result.url, "download_error"))
    /\ EndResult
    /\ UNCHANGED <<run, dry_run, index_data, index_file, files, dirs, successes, env,
                   hist>>
    /\ UNCHANGED aux

\* write_markdown: the conversion is empty, None is returned
MarkdownEmpty ==
    /\ pc = "markdown"
    /\ _html_to_markdown(detail_info.html) = ""
    /\ downloaded_any' = TRUE
    /\ main_path' = saved_path
    /\ ToAttachments
    /\ UNCHANGED <<settled, writeEnv, index_data, files, failures, successes, existing_urls,
                   existing_hashes, saved_path, target_path, fetchEnv>>
    /\ UNCHANGED aux

MarkdownName == splitext(saved_path.name)[1] \o <<".", "m", "d">>

\* mutant: the failure takes the entries of the call out of the index again
WriteMarkdownRaises_RollsBack ==
    /\ pc = "markdown"
    /\ _html_to_markdown(detail_info.html) # ""
    /\ \E outcome \in Ask(writeEnv, <<Result.url, "md">>, MarkdownWriteChoices) :
        /\ outcome \in {"md_error", "md_write_error"}
        /\ writeEnv' = Tell(writeEnv, <<Result.url, "md">>, outcome)
        /\ files' = IF outcome = "md_write_error"
                    THEN WriteFile(files,
                                   ensure_unique_path(files,
                                                      JoinPath(saved_path.dir, MarkdownName)),
                                   "")
                    ELSE files
    /\ failures' = Append(failures, FailureRow(Result.url, "download_error"))
    /\ index_data' = SubSeq(index_data, 1, items_at_call)
    /\ EndResult
    /\ UNCHANGED <<run, dry_run, index_file, dirs, successes, searchEnv, detailEnv,
                   fetchEnv, hist>>
    /\ UNCHANGED aux

\* write_markdown raises after the HTML was recorded, on opening the file
\* or in f.write, which leaves the file it opened at the unique path, empty
\* and not recorded: run() appends one failure row
WriteMarkdownRaises ==
    /\ pc = "markdown"
    /\ _html_to_markdown(detail_info.html) # ""
    /\ \E outcome \in Ask(writeEnv, <<Result.url, "md">>, MarkdownWriteChoices) :
        /\ outcome \in {"md_error", "md_write_error"}
        /\ writeEnv' = Tell(writeEnv, <<Result.url, "md">>, outcome)
        /\ files' = IF outcome = "md_write_error"
                    THEN WriteFile(files,
                                   ensure_unique_path(files,
                                                      JoinPath(saved_path.dir, MarkdownName)),
                                   "")
                    ELSE files
    /\ failures' = Append(failures, FailureRow(Result.url, "download_error"))
    /\ EndResult
    /\ UNCHANGED <<run, dry_run, index_data, index_file, dirs, successes, searchEnv,
                   detailEnv, fetchEnv, hist>>
    /\ UNCHANGED aux

\* write_markdown up to the write
WriteMarkdownFile ==
    /\ pc = "markdown"
    /\ _html_to_markdown(detail_info.html) # ""
    /\ \E outcome \in Ask(writeEnv, <<Result.url, "md">>, MarkdownWriteChoices) :
        /\ outcome \notin {"md_error", "md_write_error"}
        /\ writeEnv' = Tell(writeEnv, <<Result.url, "md">>, outcome)
    /\ target_path' = ensure_unique_path(files, JoinPath(saved_path.dir, MarkdownName))
    /\ files' = WriteFile(files, target_path', _html_to_markdown(detail_info.html))
    /\ pc' = "md_hash"
    /\ UNCHANGED <<settled, index_data, failures, successes, existing_urls,
                   existing_hashes, downloaded_any, main_path, saved_path, attIdx,
                   fetchEnv>>
    /\ UNCHANGED aux

\* write_markdown: the hash is indexed, the file is removed; the HTML file
\* is the main artifact
MarkdownDuplicate ==
    /\ pc = "md_hash"
    /\ IsDuplicateHash(sha256_file(files, target_path))
    /\ files' = RemoveFile(files, target_path)
    /\ target_path' = NoPath
    /\ downloaded_any' = TRUE
    /\ main_path' = saved_path
    /\ ToAttachments
    /\ UNCHANGED <<settled, writeEnv, index_data, failures, successes, existing_urls,
                   existing_hashes, saved_path, fetchEnv>>
    /\ UNCHANGED aux

\* write_markdown: the file is recorded as detail_markdown and is the main
\* artifact
MarkdownRecorded ==
    /\ pc = "md_hash"
    /\ ~IsDuplicateHash(sha256_file(files, target_path))
    /\ record_file(Result.url, target_path, sha256_file(files, target_path),
                   "detail_markdown")
    /\ downloaded_any' = TRUE
    /\ main_path' = target_path
    /\ target_path' = NoPath
    /\ ToAttachments
    /\ UNCHANGED <<settled, writeEnv, files, failures, successes, saved_path, fetchEnv>>
    /\ UNCHANGED aux

\* the file name of a direct file: from the url, else from the title
DirectName ==
    safe_filename(IF extract_filename_from_url(Result.url) # << >>
                  THEN extract_filename_from_url(Result.url)
                  ELSE safe_filename(Result.title))

\* download_url raises for the direct file: before the file is opened
\* ("error") or while streaming into it ("broken"); run() appends one
\* failure row
DirectRaises ==
    /\ pc = "main"
    /\ detail_info.html = NoHtml
    /\ ~IsIndexedUrl(Result.url)
    /\ \E answer \in Ask(fetchEnv, Result.url, FetchChoices) :
        /\ answer.status # "ok"
        /\ fetchEnv' = Tell(fetchEnv, Result.url, answer)
        /\ files' = IF answer.status = "broken"
                    THEN WriteFile(files,
                                   ensure_unique_path(files, JoinPath(target_dir, DirectName)),
                                   answer.bytes)
                    ELSE files
    /\ failures' = Append(failures, FailureRow(Result.url, "download_error"))
    /\ EndResult
    /\ UNCHANGED <<run, dry_run, index_data, index_file, dirs, successes, searchEnv,
                   detailEnv, writeEnv, hist>>
    /\ UNCHANGED aux

\* download_url for the direct file: skipped when the url is indexed, else
\* streamed into a fresh path
DirectDownload ==
    /\ pc = "main"
    /\ detail_info.html = NoHtml
    /\ IF IsIndexedUrl(Result.url)
       THEN /\ ToAttachments
            /\ UNCHANGED <<files, target_path, fetchEnv>>
       ELSE /\ \E answer \in Ask(fetchEnv, Result.url, FetchChoices) :
                /\ answer.status = "ok"
                /\ fetchEnv' = Tell(fetchEnv, Result.url, answer)
                /\ target_path' =
                      ensure_unique_path(files, JoinPath(target_dir, DirectName))
                /\ files' = WriteFile(files, target_path', answer.bytes)
            /\ pc' = "direct_hash"
            /\ UNCHANGED attIdx
    /\ UNCHANGED <<settled, writeEnv, index_data, failures, successes, existing_urls,
                   existing_hashes, downloaded_any, main_path, saved_path>>
    /\ UNCHANGED aux

\* download_url: the hash is indexed, the file is removed, None is returned
DirectDuplicate ==
    /\ pc = "direct_hash"
    /\ IsDuplicateHash(sha256_file(files, target_path))
    /\ files' = RemoveFile(files, target_path)
    /\ target_path' = NoPath
    /\ ToAttachments
    /\ UNCHANGED <<settled, writeEnv, index_data, failures, successes, existing_urls,
                   existing_hashes, downloaded_any, main_path, saved_path, fetchEnv>>
    /\ UNCHANGED aux

\* download_url: the file is recorded as direct_file and is the main artifact
DirectRecorded ==
    /\ pc = "direct_hash"
    /\ ~IsDuplicateHash(sha256_file(files, target_path))
    /\ record_file(Result.url, target_path, sha256_file(files, target_path), "direct_file")
    /\ downloaded_any' = TRUE
    /\ main_path' = target_path
    /\ target_path' = NoPath
    /\ ToAttachments
    /\ UNCHANGED <<settled, writeEnv, files, failures, successes, saved_path, fetchEnv>>
    /\ UNCHANGED aux

Attachment == detail_info.attachments[attIdx]

\* `attachment_url = str(attachment.get("url") or "").strip()`
attachment_url == UrlStrip(Attachment.url)

InAttachments == pc = "attachments" /\ attIdx <= Len(detail_info.attachments)

\* the file name of an attachment: its sanitized name plus the url's
\* extension when it has none, else a name built from the url
AttachmentName ==
    IF Strip(Attachment.name) # << >>
    THEN LET file_name == safe_filename(Strip(Attachment.name))
             url_ext == splitext(UrlPathName(attachment_url))[2]
         IN  IF splitext(file_name)[2] = << >> /\ url_ext # << >>
             THEN file_name \o url_ext
             ELSE file_name
    ELSE build_file_name_from_url(attachment_url,
                                  <<"a", "t", "t", "a", "c", "h", "m", "e", "n", "t">>,
                                  attIdx)

\* `if not attachment_url: continue`, and download_url returning None for
\* an indexed url
AttachmentSkipped ==
    /\ InAttachments
    /\ attachment_url = "" \/ IsIndexedUrl(attachment_url)
    /\ attIdx' = attIdx + 1
    /\ UNCHANGED <<settled, writeEnv, pc, index_data, files, failures, successes, existing_urls,
                   existing_hashes, downloaded_any, main_path, saved_path, target_path,
                   fetchEnv>>
    /\ UNCHANGED aux

\* mutant: the exception of an attachment leaves download_result
AttachmentRaises_Propagates ==
    /\ InAttachments
    /\ attachment_url # ""
    /\ ~IsIndexedUrl(attachment_url)
    /\ \E answer \in Ask(fetchEnv, attachment_url, FetchChoices) :
        /\ answer.status # "ok"
        /\ fetchEnv' = Tell(fetchEnv, attachment_url, answer)
        /\ files' = IF answer.status = "broken"
                    THEN WriteFile(files,
                                   ensure_unique_path(files,
                                                      JoinPath(target_dir, AttachmentName)),
                                   answer.bytes)
                    ELSE files
    /\ failures' = Append(failures, FailureRow(Result.url, "download_error"))
    /\ EndResult
    /\ UNCHANGED <<run, dry_run, index_data, index_file, dirs, successes, searchEnv,
                   detailEnv, writeEnv, hist>>
    /\ UNCHANGED aux

\* download_url raises for an attachment: the exception is logged and the
\* loop continues; a "broken" transfer has written its file
AttachmentRaises ==
    /\ InAttachments
    /\ attachment_url # ""
    /\ ~IsIndexedUrl(attachment_url)
    /\ \E answer \in Ask(fetchEnv, attachment_url, FetchChoices) :
        /\ answer.status # "ok"
        /\ fetchEnv' = Tell(fetchEnv, attachment_url, answer)
        /\ files' = IF answer.status = "broken"
                    THEN WriteFile(files,
                                   ensure_unique_path(files,
                                                      JoinPath(target_dir, AttachmentName)),
                                   answer.bytes)
                    ELSE files
    /\ attIdx' = attIdx + 1
    /\ UNCHANGED <<settled, writeEnv, pc, index_data, failures, successes, existing_urls,
                   existing_hashes, downloaded_any, main_path, saved_path, target_path>>
    /\ UNCHANGED aux

\* download_url streams an attachment into a fresh path
AttachmentDownload ==
    /\ InAttachments
    /\ attachment_url # ""
    /\ ~IsIndexedUrl(attachment_url)
    /\ \E answer \in Ask(fetchEnv, attachment_url, FetchChoices) :
        /\ answer.status = "ok"
        /\ fetchEnv' = Tell(fetchEnv, attachment_url, answer)
        /\ target_path' = ensure_unique_path(files, JoinPath(target_dir, AttachmentName))
        /\ files' = WriteFile(files, target_path', answer.bytes)
    /\ pc' = "attachment_hash"
    /\ UNCHANGED <<settled, writeEnv, index_data, failures, successes, existing_urls,
                   existing_hashes, downloaded_any, main_path, saved_path, attIdx>>
    /\ UNCHANGED aux

\* download_url: the hash is indexed, the file is removed, None is returned
AttachmentDuplicate ==
    /\ pc = "attachment_hash"
    /\ IsDuplicateHash(sha256_file(files, target_path))
    /\ files' = RemoveFile(files, target_path)
    /\ target_path' = NoPath
    /\ pc' = "attachments"
    /\ attIdx' = attIdx + 1
    /\ UNCHANGED <<settled, writeEnv, index_data, failures, successes, existing_urls,
                   existing_hashes, downloaded_any, main_path, saved_path, fetchEnv>>
    /\ UNCHANGED aux

\* download_url: the file is recorded as attachment
AttachmentRecorded ==
    /\ pc = "attachment_hash"
    /\ ~IsDuplicateHash(sha256_file(files, target_path))
    /\ record_file(attachment_url, target_path, sha256_file(files, target_path),
                   "attachment")
    /\ downloaded_any' = TRUE
    /\ target_path' = NoPath
    /\ pc' = "attachments"
    /\ attIdx' = attIdx + 1
    /\ UNCHANGED <<settled, writeEnv, files, failures, successes, main_path, saved_path, fetchEnv>>
    /\ UNCHANGED aux

\* the row run() appends to the success CSV
SuccessRow ==
    [file_name |-> Row.file_name, url |-> Result.url, path |-> main_path,
     folder_path |-> target_dir, publish_time |-> Result.publish_time]

\* download_result returns (target_dir, main_path): one success row
ReturnOutcome ==
    /\ pc = "attachments"
    /\ attIdx > Len(detail_info.attachments)
    /\ downloaded_any
    /\ successes' = Append(successes, SuccessRow)
    /\ EndResult
    /\ UNCHANGED <<run, dry_run, index_data, index_file, files, dirs, failures, env,
                   hist>>
    /\ UNCHANGED aux

\* mutant: a call that retained nothing is logged as a failure
ReturnNone_Fails ==
    /\ pc = "attachments"
    /\ attIdx > Len(detail_info.attachments)
    /\ ~downloaded_any
    /\ failures' = Append(failures, FailureRow(Result.url, "download_error"))
    /\ EndResult
    /\ UNCHANGED <<run, dry_run, index_data, index_file, files, dirs, successes, env,
                   hist>>
    /\ UNCHANGED aux

\* download_result returns None: nothing was retained, nothing is reported
ReturnNone ==
    /\ pc = "attachments"
    /\ attIdx > Len(detail_info.attachments)
    /\ ~downloaded_any
    /\ EndResult
    /\ UNCHANGED <<run, dry_run, index_data, durable, env, hist>>
    /\ UNCHANGED aux

\* mutant: run() ends without writing the index
SaveIndex_Unsaved ==
    /\ pc = "save"
    /\ pc' = "done"
    /\ UNCHANGED <<run, dry_run, index_data, durable, loop, frame, env, hist>>
    /\ UNCHANGED aux

\* save_index, the last statement of run()
SaveIndex ==
    /\ pc = "save"
    /\ index_file' = [exists |-> TRUE, items |-> index_data]
    /\ saves' = saves + 1
    /\ pc' = "done"
    /\ UNCHANGED <<run, dry_run, index_data, files, dirs, failures, successes, loop,
                   frame, env, runs, index_file_at_start, files_at_start>>
    /\ UNCHANGED aux

Next ==
    \/ StartRun
    \/ SearchRaises
    \/ SearchReturns
    \/ NoNewer
    \/ DryRunResult
    \/ SkipIndexed
    \/ DetailRaises
    \/ DetailReturns
    \/ WriteHtmlRaises
    \/ WriteHtmlFile
    \/ HtmlDuplicate
    \/ HtmlRecorded
    \/ MarkdownEmpty
    \/ WriteMarkdownRaises
    \/ WriteMarkdownFile
    \/ MarkdownDuplicate
    \/ MarkdownRecorded
    \/ DirectRaises
    \/ DirectDownload
    \/ DirectDuplicate
    \/ DirectRecorded
    \/ AttachmentSkipped
    \/ AttachmentRaises
    \/ AttachmentDownload
    \/ AttachmentDuplicate
    \/ AttachmentRecorded
    \/ ReturnOutcome
    \/ ReturnNone
    \/ SaveIndex

Spec == Init /\ [][Next]_vars

SpecRerun == InitRerun /\ [][Next]_vars

\* run() is sequential code: whenever a step is possible, one is taken
LiveSpec == Init /\ [][Next]_vars /\ WF_vars(Next)

(* ============================ claims =================================== *)

\* the items ensure_index returned to this run
Loaded == IF index_file_at_start.exists THEN index_file_at_start.items ELSE << >>

\* control points inside download_result, after fetch_detail_info returned
CallPoints == {"main", "html_hash", "markdown", "md_hash", "direct_hash",
               "attachments", "attachment_hash"}

\* control points at which a written file awaits its hash check
HashPoints == {"html_hash", "md_hash", "direct_hash", "attachment_hash"}

Reasons == {failures[i].reason : i \in DOMAIN failures}

(* ----------------------- SiteRegistry ---------------------------------- *)

\* the engine at rest, before run()
EngineIdle == InitRun /\ runs = 1 /\ ~dry_run /\ ~index_file.exists

\* the urls and adapter names ensure_generic is called with ("" is None)
RegistryUrls == {"https://a.example/search?q={query}", "https://A.Example/list",
                 "https://b.example/", "http://B.EXAMPLE:8080/x"}
AdapterNames == {"playwright", ""}

\* the adapter object ensure_generic constructs; `id` is the identity of
\* the object
NewAdapter(url, adapter_name) ==
    [id |-> adapter_count + 1,
     class |-> IF adapter_name = "playwright"
               THEN "PlaywrightRuleAdapter" ELSE "GenericHtmlAdapter",
     base_url |-> url]

\* SiteRegistry.register: the adapter is stored under the lower-cased
\* domain, in place of the adapter the domain had
register(domain, adapter) ==
    _adapters' = [d \in DOMAIN _adapters \cup {lower(domain)} |->
                     IF d = lower(domain) THEN adapter ELSE _adapters[d]]

\* mutant: ensure_generic constructs and registers an adapter although the
\* domain has one
EnsureGenericCached_Recreates ==
    /\ Len(ensure_calls) < MaxCalls
    /\ \E url \in RegistryUrls, adapter_name \in AdapterNames :
        /\ lower(netloc(url)) \in DOMAIN _adapters
        /\ register(lower(netloc(url)), NewAdapter(url, adapter_name))
        /\ adapter_count' = adapter_count + 1
        /\ ensure_calls' = Append(ensure_calls,
                                  [url |-> url, returned |-> NewAdapter(url, adapter_name)])
    /\ UNCHANGED <<beside_registry, row_searches>>

\* ensure_generic for a domain that has an adapter: it is returned
EnsureGenericCached ==
    /\ Len(ensure_calls) < MaxCalls
    /\ \E url \in RegistryUrls, adapter_name \in AdapterNames :
        /\ lower(netloc(url)) \in DOMAIN _adapters
        /\ ensure_calls' = Append(ensure_calls,
                                  [url |-> url, returned |-> _adapters[lower(netloc(url))]])
    /\ UNCHANGED <<beside_registry, _adapters, adapter_count, row_searches>>

\* ensure_generic for a new domain: an adapter of the configured class is
\* constructed, registered under the lower-cased domain and returned
EnsureGenericCreates ==
    /\ Len(ensure_calls) < MaxCalls
    /\ \E url \in RegistryUrls, adapter_name \in AdapterNames :
        /\ lower(netloc(url)) \notin DOMAIN _adapters
        /\ register(lower(netloc(url)), NewAdapter(url, adapter_name))
        /\ adapter_count' = adapter_count + 1
        /\ ensure_calls' = Append(ensure_calls,
                                  [url |-> url, returned |-> NewAdapter(url, adapter_name)])
    /\ UNCHANGED <<beside_registry, row_searches>>

RegistryNext == EnsureGenericCached \/ EnsureGenericCreates

\* any sequence of ensure_generic calls on one registry
RegistrySpec == EngineIdle /\ [][RegistryNext]_vars

\* a call of register from outside ensure_generic, which run() never makes:
\* the adapter given replaces the one the domain has, if any
Register ==
    /\ adapter_count < MaxCalls
    /\ \E url \in RegistryUrls, adapter_name \in AdapterNames :
        /\ register(netloc(url), NewAdapter(url, adapter_name))
    /\ adapter_count' = adapter_count + 1
    /\ UNCHANGED <<beside_registry, ensure_calls, row_searches>>

\* the registry as a library: ensure_generic and register called in any
\* order
RegistryApiSpec == EngineIdle /\ [][RegistryNext \/ Register]_vars

(* ------------------ run(): the adapter of a row ------------------------ *)

\* config["site_overrides"]: "" is a key that is absent (None)
overrides ==
    ("A.Example" :> [search_url |-> "https://a.example/s?k={query}", adapter |-> "playwright"])
    @@ ("b.example" :> [search_url |-> "", adapter |-> "playwright"])
    @@ ("B.EXAMPLE:8080" :> [search_url |-> "https://b.example/s/{query}", adapter |-> ""])

NoOverride == [search_url |-> "", adapter |-> ""]

\* the keywords (file_name) of the rows
Keywords == {"law", "tax law"}

\* urllib.parse.quote_plus of the keywords
quote_plus(value) == IF value = "tax law" THEN "tax+law" ELSE value

\* template.format(query=query) of the templates of the model: the text
\* with its "{query}" field replaced, a text without the field as it is
format(template, query) ==
    CASE template = "https://a.example/s?k={query}" -> "https://a.example/s?k=" \o query
      [] template = "https://b.example/s/{query}" -> "https://b.example/s/" \o query
      [] template = "https://a.example/search?q={query}" -> "https://a.example/search?q=" \o query
      [] OTHER -> template

\* the adapter ensure_generic constructs from the arguments run() passes for
\* a row with this url: its override is looked up under the netloc as
\* written, and adapter_config is the override itself
AdapterOfRow(url) ==
    LET override == IF netloc(url) \in DOMAIN overrides
                    THEN overrides[netloc(url)] ELSE NoOverride
    IN  [class |-> IF override.adapter = "playwright"
                   THEN "PlaywrightRuleAdapter" ELSE "GenericHtmlAdapter",
         base_url |-> url,
         search_url_template |-> override.search_url,
         rules |-> override]

\* _build_url of the two adapter classes: the template, else the base url,
\* with the quoted keyword in place of "{query}"
_build_url(adapter, file_name) ==
    format(IF adapter.search_url_template # "" THEN adapter.search_url_template
           ELSE adapter.base_url,
           quote_plus(file_name))

\* adapter.search(row.file_name) up to the request of the search page
RowSearch(url, file_name, adapter) ==
    /\ row_searches' = Append(row_searches,
                              [url |-> url, file_name |-> file_name, adapter |-> adapter,
                               request |-> _build_url(adapter, file_name)])
    /\ ensure_calls' = Append(ensure_calls, [url |-> url, returned |-> adapter])

\* mutant: a row whose domain has an adapter is searched with an adapter of
\* its own
RowSearchCached_OwnAdapter ==
    /\ Len(row_searches) < MaxCalls
    /\ \E url \in RegistryUrls, file_name \in Keywords :
        /\ lower(netloc(url)) \in DOMAIN _adapters
        /\ RowSearch(url, file_name, AdapterOfRow(url))
    /\ UNCHANGED <<beside_registry, _adapters, adapter_count>>

\* one iteration of `for row in rows` up to the search request, for a row
\* whose domain has an adapter in the registry
RowSearchCached ==
    /\ Len(row_searches) < MaxCalls
    /\ \E url \in RegistryUrls, file_name \in Keywords :
        /\ lower(netloc(url)) \in DOMAIN _adapters
        /\ RowSearch(url, file_name, _adapters[lower(netloc(url))])
    /\ UNCHANGED <<beside_registry, _adapters, adapter_count>>

\* the same for a row whose domain has none: the adapter is constructed
\* from the row and registered
RowSearchCreates ==
    /\ Len(row_searches) < MaxCalls
    /\ \E url \in RegistryUrls, file_name \in Keywords :
        /\ lower(netloc(url)) \notin DOMAIN _adapters
        /\ register(lower(netloc(url)), AdapterOfRow(url))
        /\ adapter_count' = adapter_count + 1
        /\ RowSearch(url, file_name, AdapterOfRow(url))
    /\ UNCHANGED beside_registry

RowsNext == RowSearchCached \/ RowSearchCreates

\* the rows of one run, each up to its search request
RowsSpec == EngineIdle /\ [][RowsNext]_vars

(* ----------------- PlaywrightRuleAdapter.search ------------------------ *)

UndatedPage == [title |-> <<"T">>, url |-> PageUrl, publish_time |-> NoTime]

\* an undated result that links a Word file
UndatedDoc ==
    [title |-> <<"T">>, url |-> "https://a.example/f/doc.docx", publish_time |-> NoTime]

\* the SearchResult values _parse_results can yield
ParsedPool == {FreshPage, UndatedPage, UndatedFile, UndatedDoc}
ParsedLists == UNION { [1..n -> ParsedPool] : n \in 0..MaxResults }

\* the detail_date rules of the adapter: backfill on or off, detail pages
\* fetched by requests or by the headless browser
DetailDateRules == [enabled : BOOLEAN, fetch_mode : {"requests", "playwright"}]

\* result.url.lower().endswith(".pdf")
EndsWithPdf(url) == url \in {FileUrl, MirrorUrl}

\* _is_attachment_url with the default extensions: the extension of the
\* url's path is one of pdf, doc, docx, xls, ...
_is_attachment_url(url) == url \in {FileUrl, MirrorUrl, "https://a.example/f/doc.docx"}

\* the class of the exception a failing _fetch_detail_html raises:
\* requests.get and raise_for_status raise a requests.RequestException,
\* the playwright calls raise a playwright Error
FetchException(fetch_mode) ==
    IF fetch_mode = "playwright" THEN "playwright.Error" ELSE "requests.RequestException"

\* `except requests.RequestException` of search
IsCaught(exception) == exception = "requests.RequestException"

\* the date _extract_detail_date finds on a dated detail page
DetailTime == RefTime + SecondsPerDay

\* _fetch_search_html raises: search raises before any result is parsed
SearchPageRaises ==
    /\ search_state = "idle"
    /\ search_state' = "raised"
    /\ UNCHANGED <<beside_backfill, search_rules, search_results, search_idx,
                   detail_fetch>>

\* the search page is fetched and parsed
SearchPageParsed ==
    /\ search_state = "idle"
    /\ \E rules \in DetailDateRules, rs \in ParsedLists :
        /\ search_rules' = rules
        /\ search_results' = rs
    /\ search_idx' = 1
    /\ search_state' = "backfill"
    /\ UNCHANGED <<beside_backfill, detail_fetch>>

InBackfill == search_state = "backfill" /\ search_idx <= Len(search_results)

\* _fill_detail_date goes on to fetch the detail page
NeedsDetailDate ==
    /\ search_results[search_idx].publish_time = NoTime
    /\ search_rules.enabled
    /\ ~EndsWithPdf(search_results[search_idx].url)

\* _fill_detail_date returns at once: the result has a date, backfill is
\* off, or the url is a PDF
BackfillSkipped ==
    /\ InBackfill
    /\ ~NeedsDetailDate
    /\ search_idx' = search_idx + 1
    /\ detail_fetch' = "none"
    /\ UNCHANGED <<beside_backfill, search_state, search_rules, search_results>>

\* the detail page is fetched: it is no HTML, or has no date, or has one,
\* which becomes the result's publish_time
BackfillFetched ==
    /\ InBackfill
    /\ NeedsDetailDate
    /\ \E outcome \in {"no_html", "undated", "dated"} :
        /\ detail_fetch' = outcome
        /\ search_results' =
              IF outcome = "dated"
              THEN [search_results EXCEPT ![search_idx].publish_time = DetailTime]
              ELSE search_results
    /\ search_idx' = search_idx + 1
    /\ UNCHANGED <<beside_backfill, search_state, search_rules>>

\* fetching the detail page raises: search continues with the next result
\* when the exception is a requests.RequestException, else search raises
BackfillFetchRaises ==
    /\ InBackfill
    /\ NeedsDetailDate
    /\ detail_fetch' = "raised"
    /\ IF IsCaught(FetchException(search_rules.fetch_mode))
       THEN search_idx' = search_idx + 1 /\ search_state' = search_state
       ELSE search_idx' = search_idx /\ search_state' = "raised"
    /\ UNCHANGED <<beside_backfill, search_rules, search_results>>

\* `return results`
BackfillReturns ==
    /\ search_state = "backfill"
    /\ search_idx > Len(search_results)
    /\ search_state' = "returned"
    /\ UNCHANGED <<beside_backfill, search_rules, search_results, search_idx,
                   detail_fetch>>

BackfillNext ==
    \/ SearchPageRaises
    \/ SearchPageParsed
    \/ BackfillSkipped
    \/ BackfillFetched
    \/ BackfillFetchRaises
    \/ BackfillReturns

\* one call of PlaywrightRuleAdapter.search
BackfillSpec == EngineIdle /\ [][BackfillNext]_vars

(* ----------------------- _html_to_markdown ----------------------------- *)

\* the nodes the documents of the model are made of
Nodes ==
    LET text(s) == NavigableString(s)
        tag(name, children) == Tag(name, << >>, children)
        A == text(<<"A">>)
        B == text(<<"B">>)
        br == tag("br", << >>)
    IN  { A,
          text(<<" ">>),
          tag("p", <<A>>),
          tag("p", <<B>>),
          tag("p", << >>),
          tag("script", <<text(<<"x">>)>>),
          tag("p", <<A, br, B>>),
          tag("p", <<A, br, br, B>>),
          tag("p", <<A, br, br, br, br, B>>),
          tag("p", <<text(<<" ", "A", "\n", "\n", "\n", "\n", "B">>)>>),
          tag("h2", <<A, tag("b", <<B>>)>>),
          tag("ul", <<tag("li", <<A>>), tag("li", << >>), tag("li", <<B>>)>>),
          tag("ol", <<tag("li", <<A>>), tag("li", <<B>>)>>),
          tag("blockquote", <<A>>),
          tag("div", <<tag("p", <<A>>), B>>),
          tag("div", <<A, tag("span", <<B>>)>>),
          tag("body", <<tag("p", <<A>>)>>),
          tag("p", <<Tag("a", <<"u">>, <<B>>)>>),
          tag("p", <<text(<<"\f", "A", "\r", "\n", "B", "\r">>)>>),
          tag("h2", <<Tag("a", <<"u", "\r">>, <<text(<<"A", "\r">>)>>)>>),
          tag("p", <<Tag("a", <<"u", "\n", "\n", "\n", "\n", "v">>, <<B>>)>>),
          tag("p", <<tag("strong", <<A>>), tag("em", <<B>>)>>) }

\* the parsed documents: up to MaxNodes nodes under the document
Soups == { Tag("[document]", << >>, children) :
               children \in UNION { [1..n -> Nodes] : n \in 0..MaxNodes } }

\* `soup = BeautifulSoup(html, "html.parser")`
ParseHtml ==
    /\ md_state = "idle"
    /\ md_html' \in Soups
    /\ md_soup' = md_html'
    /\ md_state' = "parsed"
    /\ UNCHANGED <<beside_converter, md_out, md_outs>>

\* the rest of _html_to_markdown: the junk is removed from the soup, the
\* tree is walked and the lines are joined
ConvertHtml ==
    /\ md_state = "parsed"
    /\ md_soup' = decompose(md_soup)
    /\ md_out' = Markdown(md_soup)
    /\ md_outs' = Append(md_outs, md_out')
    /\ md_state' = "converted"
    /\ UNCHANGED <<beside_converter, md_html>>

\* _html_to_markdown is called a second time with the same HTML, which is
\* parsed to a new soup
ParseHtmlAgain ==
    /\ md_state = "converted"
    /\ Len(md_outs) < 2
    /\ md_soup' = md_html
    /\ md_state' = "parsed"
    /\ UNCHANGED <<beside_converter, md_html, md_out, md_outs>>

ConverterNext == ParseHtml \/ ConvertHtml \/ ParseHtmlAgain

\* two calls of _html_to_markdown with one HTML
ConverterSpec == EngineIdle /\ [][ConverterNext]_vars

(* ----------------------- GenericHtmlAdapter.search --------------------- *)

\* A text is a sequence of words. regex.findall(text) for the two
\* DATE_REGEXES: the match each pattern finds in a word of the model, if
\* any (nian, yue, ri stand for the characters for year, month and day)
findall(regex, text) ==
    LET match(word) ==
            CASE regex = 1 /\ word \in {"2024-01-05", "2024/1/7", "2024-13-45"} -> <<word>>
              [] regex = 1 /\ word = "/n/2024.01.06.html" -> <<"2024.01.06">>
              [] regex = 2 /\ word = "2024nian1yue8ri" -> <<word>>
              [] OTHER -> << >>
    IN  join(<< >>, [i \in DOMAIN text |-> match(text[i])])

\* the years in which a search may run
RunYears == {2023, 2024, 2026}

\* the first day of a year, in days after the first day of 2024
YearStart(year) ==
    CASE year = 2023 -> -365
      [] year = 2024 -> 0
      [] year = 2026 -> 731
      [] OTHER -> 0

\* date_parser.parse(match, fuzzy=True): the date, as a time of the model
\* (RefTime + 5 days is 2024-01-05), or NoTime where parse raises
\* ValueError.  Of a match of the second pattern dateutil reads the month
\* and the day and no year: the year is the one of its default, the day
\* the call runs on.
date_parser_parse(match) ==
    CASE match = "2024-01-05" -> RefTime + 5 * SecondsPerDay
      [] match = "2024.01.06" -> RefTime + 6 * SecondsPerDay
      [] match = "2024/1/7" -> RefTime + 7 * SecondsPerDay
      [] match = "2024nian1yue8ri" -> RefTime + (YearStart(gs_year) + 8) * SecondsPerDay
      [] OTHER -> NoTime

\* the dates of the matches that parse, pattern by pattern in text order
_extract_dates(text) ==
    LET parsed(regex) == [i \in DOMAIN findall(regex, text) |->
                              date_parser_parse(findall(regex, text)[i])]
    IN  SelectSeq(parsed(1) \o parsed(2), LAMBDA dt : dt # NoTime)

\* mutant: the first date found is taken
_best_date_First(text) ==
    IF _extract_dates(text) = << >> THEN NoTime ELSE _extract_dates(text)[1]

\* max(dates), or None when there is none
_best_date(text) ==
    LET dates == _extract_dates(text)
    IN  IF dates = << >> THEN NoTime
        ELSE CHOOSE dt \in {dates[i] : i \in DOMAIN dates} :
                \A i \in DOMAIN dates : dates[i] <= dt

\* the links of the search page: the words of the link, the other words of
\* its parent, and the href
GenericLinks ==
    [link_text : {<< >>, <<"T">>, <<"T", "2024-01-05">>},
     siblings : {<< >>, <<"T", "2024/1/7">>, <<"2024-13-45">>, <<"2024nian1yue8ri", "2024-01-05">>},
     href : {"/n/1", "/n/2024.01.06.html"}]

\* link.parent.get_text(" ", strip=True): the link's words are among them
parent_text(link) == link.link_text \o link.siblings

\* _matches_keywords(combined_text, file_name) for the keyword T
MatchesKeyword(link) ==
    \E i \in DOMAIN (link.link_text \o parent_text(link)) :
        (link.link_text \o parent_text(link))[i] = "T"

\* requests.get or raise_for_status raises
GenericSearchRaises ==
    /\ gs_state = "idle"
    /\ gs_state' = "raised"
    /\ UNCHANGED <<beside_heuristic, gs_links, gs_idx, gs_results, gs_year>>

\* the search page is fetched and parsed, on a day of some year
GenericSearchParsed ==
    /\ gs_state = "idle"
    /\ gs_links' \in UNION { [1..n -> GenericLinks] : n \in 0..MaxResults }
    /\ gs_year' \in RunYears
    /\ gs_idx' = 1
    /\ gs_state' = "links"
    /\ UNCHANGED <<beside_heuristic, gs_results>>

\* `if not _matches_keywords(...): continue`
GenericLinkSkipped ==
    /\ gs_state = "links"
    /\ gs_idx <= Len(gs_links)
    /\ ~MatchesKeyword(gs_links[gs_idx])
    /\ gs_idx' = gs_idx + 1
    /\ UNCHANGED <<beside_heuristic, gs_state, gs_links, gs_results, gs_year>>

\* the link is kept: its result is appended
GenericLinkKept ==
    /\ gs_state = "links"
    /\ gs_idx <= Len(gs_links)
    /\ MatchesKeyword(gs_links[gs_idx])
    /\ LET link == gs_links[gs_idx]
       IN  gs_results' = Append(gs_results,
              [title |-> IF link.link_text # << >> THEN link.link_text ELSE <<"T">>,
               url |-> "https://a.example" \o link.href,
               publish_time |-> _best_date(link.link_text \o parent_text(link)
                                           \o <<link.href>>)])
    /\ gs_idx' = gs_idx + 1
    /\ UNCHANGED <<beside_heuristic, gs_state, gs_links, gs_year>>

\* `return results`
GenericSearchReturns ==
    /\ gs_state = "links"
    /\ gs_idx > Len(gs_links)
    /\ gs_state' = "returned"
    /\ UNCHANGED <<beside_heuristic, gs_links, gs_idx, gs_results, gs_year>>

HeuristicNext ==
    \/ GenericSearchRaises
    \/ GenericSearchParsed
    \/ GenericLinkSkipped
    \/ GenericLinkKept
    \/ GenericSearchReturns

\* one call of GenericHtmlAdapter.search
HeuristicSpec == EngineIdle /\ [][HeuristicNext]_vars

(* ----------------------- sync_local_to_cloud --------------------------- *)

\* The files of a local folder. Each was modified at RefTime + 5 days; the
\* remote folder has no file of that name ("absent"), or one whose metadata
\* give an older or a newer time, or one whose metadata cannot be fetched;
\* the rename and the upload of the file succeed or return an error.
SyncItems ==
    [remote : {"absent", "older", "newer", "meta_fails"},
     rename_ok : BOOLEAN,
     upload_ok : BOOLEAN]

\* int(meta.get("latest_modify_time", "0")) of the remote file
LatestModifyTime(item) ==
    IF item.remote = "older" THEN RefTime + 3 * SecondsPerDay ELSE RefTime + 7 * SecondsPerDay

\* get_folder_contents returns an error: sync returns it
SyncListFails ==
    /\ sy_state = "idle"
    /\ sy_state' = "failed"
    /\ UNCHANGED <<beside_sync, sy_items, sy_idx, cloud_modified_time, sy_ops>>

\* the remote folder is listed and the loop over the local folder starts
SyncListed ==
    /\ sy_state = "idle"
    /\ sy_items' \in UNION { [1..n -> SyncItems] : n \in 0..MaxResults }
    /\ sy_idx' = 1
    /\ sy_state' = "items"
    /\ UNCHANGED <<beside_sync, cloud_modified_time, sy_ops>>

InSync == sy_state = "items" /\ sy_idx <= Len(sy_items)

\* `upload_file`, after which the loop goes on whatever it returned
Upload(ops) ==
    /\ sy_ops' = IF sy_items[sy_idx].upload_ok
                 THEN Append(ops, [op |-> "upload", item |-> sy_idx, date |-> NoTime])
                 ELSE ops
    /\ sy_idx' = sy_idx + 1

\* no file of that name in the remote folder: the file is uploaded
SyncNewFile ==
    /\ InSync
    /\ sy_items[sy_idx].remote = "absent"
    /\ Upload(sy_ops)
    /\ UNCHANGED <<beside_sync, sy_state, sy_items, cloud_modified_time>>

\* the metadata are fetched and the remote file is not older: `continue`
SyncUpToDate ==
    /\ InSync
    /\ sy_items[sy_idx].remote = "newer"
    /\ cloud_modified_time' = LatestModifyTime(sy_items[sy_idx])
    /\ sy_idx' = sy_idx + 1
    /\ UNCHANGED <<beside_sync, sy_state, sy_items, sy_ops>>

\* the overwrite path: the remote file is renamed with the date taken from
\* cloud_modified_time, then the local file is uploaded; a failed rename
\* ends the item. The variable was assigned for this file when its metadata
\* were fetched; when they were not, it holds what an earlier file left.
SyncOverwrite ==
    /\ InSync
    /\ sy_items[sy_idx].remote \in {"older", "meta_fails"}
    /\ cloud_modified_time' =
          IF sy_items[sy_idx].remote = "older" THEN LatestModifyTime(sy_items[sy_idx])
          ELSE cloud_modified_time
    /\ cloud_modified_time' # NoTime
    /\ IF sy_items[sy_idx].rename_ok
       THEN Upload(Append(sy_ops, [op |-> "rename", item |-> sy_idx,
                                   date |-> cloud_modified_time']))
       ELSE sy_ops' = sy_ops /\ sy_idx' = sy_idx + 1
    /\ UNCHANGED <<beside_sync, sy_state, sy_items>>

\* the metadata cannot be fetched and no earlier file of the folder bound
\* cloud_modified_time: reading it raises UnboundLocalError, which the
\* function's `except Exception` returns
SyncUnbound ==
    /\ InSync
    /\ sy_items[sy_idx].remote = "meta_fails"
    /\ cloud_modified_time = NoTime
    /\ sy_state' = "failed"
    /\ UNCHANGED <<beside_sync, sy_items, sy_idx, cloud_modified_time, sy_ops>>

\* `return None`
SyncReturns ==
    /\ sy_state = "items"
    /\ sy_idx > Len(sy_items)
    /\ sy_state' = "returned"
    /\ UNCHANGED <<beside_sync, sy_items, sy_idx, cloud_modified_time, sy_ops>>

SyncNext ==
    \/ SyncListFails
    \/ SyncListed
    \/ SyncNewFile
    \/ SyncUpToDate
    \/ SyncOverwrite
    \/ SyncUnbound
    \/ SyncReturns

\* one call of sync_local_to_cloud on a folder of files
SyncSpec == EngineIdle /\ [][SyncNext]_vars

(* --------------------------- launcher_ui ------------------------------- *)

\* set_buttons_running
set_buttons_running(running) ==
    IF running
    THEN [main |-> "disabled", upload |-> "disabled", stop |-> "normal"]
    ELSE [main |-> "normal", upload |-> "normal", stop |-> "disabled"]

\* the start buttons and the executables they run
StartButtons == {"main", "upload"}

\* a start button is clicked and the executable is not there: a line goes
\* to the log and nothing is started
ClickStartMissing ==
    /\ log_errors < MaxTasks
    /\ \E b \in StartButtons : buttons[b] = "normal"
    /\ log_errors' = log_errors + 1
    /\ UNCHANGED <<beside_launcher, buttons, _current_proc, tasks, after_queue>>

\* a start button is clicked: start_proc clears _current_proc, on_start
\* disables the start buttons, and the thread `run` is started
ClickStart ==
    /\ Len(tasks) < MaxTasks
    /\ \E b \in StartButtons :
        /\ buttons[b] = "normal"
        /\ tasks' = Append(tasks, [exe |-> b, thread |-> "run", proc |-> "none",
                                   stopped |-> FALSE, lines |-> 0])
    /\ _current_proc' = 0
    /\ buttons' = set_buttons_running(TRUE)
    /\ UNCHANGED <<beside_launcher, after_queue, log_errors>>

\* thread `run`: Popen raises; the first after() schedules the message
PopenRaises ==
    /\ \E k \in DOMAIN tasks :
        /\ tasks[k].thread = "run"
        /\ tasks' = [tasks EXCEPT ![k].thread = "on_finish", ![k].proc = "failed"]
    /\ after_queue' = Append(after_queue, "_append_log")
    /\ UNCHANGED <<beside_launcher, buttons, _current_proc, log_errors>>

\* thread `run`: Popen returns, the process is started; it is not yet
\* stored
PopenReturns ==
    /\ \E k \in DOMAIN tasks :
        /\ tasks[k].thread = "run"
        /\ tasks' = [tasks EXCEPT ![k].thread = "popen_returned", ![k].proc = "running"]
    /\ UNCHANGED <<beside_launcher, buttons, _current_proc, after_queue, log_errors>>

\* thread `run`: `log_widget._current_proc = proc`, and the thread
\* `read_loop` is started
StoreCurrentProc ==
    /\ \E k \in DOMAIN tasks :
        /\ tasks[k].thread = "popen_returned"
        /\ tasks' = [tasks EXCEPT ![k].thread = "read_loop"]
        /\ _current_proc' = k
    /\ UNCHANGED <<beside_launcher, buttons, after_queue, log_errors>>

\* a worker process ends, by itself or terminated
ProcessExits ==
    /\ \E k \in DOMAIN tasks :
        /\ tasks[k].proc = "running"
        /\ tasks' = [tasks EXCEPT ![k].proc = "exited"]
    /\ UNCHANGED <<beside_launcher, buttons, _current_proc, after_queue, log_errors>>

\* thread `read_loop`: `for line in proc.stdout` reads a line of the
\* worker's output and schedules the callback that writes it to the log
\* (the field `lines`, the lines the loop has read, bounds the output)
ReadLine ==
    /\ \E k \in DOMAIN tasks :
        /\ tasks[k].thread = "read_loop"
        /\ tasks[k].lines < MaxLines
        /\ tasks' = [tasks EXCEPT ![k].lines = @ + 1]
    /\ after_queue' = Append(after_queue, "_append_log")
    /\ UNCHANGED <<beside_launcher, buttons, _current_proc, log_errors>>

\* thread `read_loop`: `for line in proc.stdout` ends, the process having
\* closed its output or ended; the loop is over and its count is dropped
ReadLoopEof ==
    /\ \E k \in DOMAIN tasks :
        /\ tasks[k].thread = "read_loop"
        /\ tasks' = [tasks EXCEPT ![k].thread = "wait", ![k].lines = 0]
    /\ UNCHANGED <<beside_launcher, buttons, _current_proc, after_queue, log_errors>>

\* mutant: on_finish is scheduled at the end of the output, without
\* proc.wait()
WaitReturns_NoWait ==
    /\ \E k \in DOMAIN tasks :
        /\ tasks[k].thread = "wait"
        /\ tasks' = [tasks EXCEPT ![k].thread = "on_finish"]
    /\ after_queue' = Append(after_queue, "_append_log")
    /\ UNCHANGED <<beside_launcher, buttons, _current_proc, log_errors>>

\* thread `read_loop`: proc.wait() returns when the process has ended; the
\* first after() schedules the exit message
WaitReturns ==
    /\ \E k \in DOMAIN tasks :
        /\ tasks[k].thread = "wait"
        /\ tasks[k].proc = "exited"
        /\ tasks' = [tasks EXCEPT ![k].thread = "on_finish"]
    /\ after_queue' = Append(after_queue, "_append_log")
    /\ UNCHANGED <<beside_launcher, buttons, _current_proc, log_errors>>

\* thread `run` after the failure, thread `read_loop` after the wait: the
\* second after() schedules on_finish, and the thread ends
ScheduleOnFinish ==
    /\ \E k \in DOMAIN tasks :
        /\ tasks[k].thread = "on_finish"
        /\ tasks' = [tasks EXCEPT ![k].thread = "finished"]
    /\ after_queue' = Append(after_queue, "on_finish")
    /\ UNCHANGED <<beside_launcher, buttons, _current_proc, log_errors>>

\* the main loop runs the oldest scheduled callback: a log line is written,
\* on_finish schedules set_buttons_running(False), which enables the start
\* buttons
MainLoopCallback ==
    /\ after_queue # << >>
    /\ after_queue' = IF Head(after_queue) = "on_finish"
                      THEN Append(Tail(after_queue), "set_buttons_running")
                      ELSE Tail(after_queue)
    /\ buttons' = IF Head(after_queue) = "set_buttons_running"
                  THEN set_buttons_running(FALSE) ELSE buttons
    /\ UNCHANGED <<beside_launcher, _current_proc, tasks, log_errors>>

\* the stop button is clicked: _kill_current terminates the process in
\* _current_proc if there is one and it has not ended
ClickStop ==
    /\ buttons.stop = "normal"
    /\ tasks' = IF _current_proc # 0 /\ tasks[_current_proc].proc = "running"
                THEN [tasks EXCEPT ![_current_proc].stopped = TRUE]
                ELSE tasks
    /\ UNCHANGED <<beside_launcher, buttons, _current_proc, after_queue, log_errors>>

\* what the threads and the main loop do on their own, whatever the worker
\* process does: Popen comes back, the statements of the threads are run,
\* the output of a process that has ended comes to its end, and the main
\* loop runs the callbacks
LauncherProgress ==
    \/ PopenRaises
    \/ PopenReturns
    \/ StoreCurrentProc
    \/ (ReadLoopEof /\ \A k \in DOMAIN tasks :
                           tasks[k].thread = "read_loop" => tasks[k].proc = "exited")
    \/ WaitReturns
    \/ ScheduleOnFinish
    \/ MainLoopCallback

LauncherNext ==
    \/ ClickStartMissing
    \/ ClickStart
    \/ ClickStop
    \/ PopenRaises
    \/ PopenReturns
    \/ StoreCurrentProc
    \/ ProcessExits
    \/ ReadLine
    \/ ReadLoopEof
    \/ WaitReturns
    \/ ScheduleOnFinish
    \/ MainLoopCallback

\* the launcher window: the user clicks when they like and a worker process
\* ends when it likes or never; threads and the main loop keep running
LauncherSpec == EngineIdle /\ [][LauncherNext]_vars /\ WF_vars(LauncherProgress)

(* ------------------------------- C1 ------------------------------------ *)

\* positions of the search results published strictly after the row's
\* reference time
FreshPositions ==
    {j \in DOMAIN results :
        results[j].publish_time # NoTime /\ results[j].publish_time - Row.publish_time >= 1}

\* C1: the filtered list holds, in their original order, exactly the results
\* whose publish_time is defined and strictly later than the row's reference
\* time, and download_result is entered only for such a result.
C1_FilterKeepsStrictlyNewer ==
    pc \in {"filtered", "download"} \cup CallPoints =>
        /\ Len(newer) = Cardinality(FreshPositions)
        /\ \A i \in DOMAIN newer :
              \E j \in FreshPositions :
                  /\ newer[i] = results[j]
                  /\ Cardinality({k \in FreshPositions : k < j}) = i - 1
        /\ pc \in CallPoints =>
              /\ Result.publish_time # NoTime
              /\ Result.publish_time > Row.publish_time

\* a result published exactly at the reference time was dropped and the one
\* published a second later is being downloaded
C1_Witness ==
    /\ pc = "main"
    /\ Len(results) = 2
    /\ Len(newer) = 1
    /\ \E j \in DOMAIN results : results[j].publish_time = Row.publish_time
    /\ Result.publish_time = Row.publish_time + 1

(* ------------------------------- C2 ------------------------------------ *)

UrlIsIndexed(url) == \E i \in DOMAIN index_data : index_data[i].url = url

\* C2: a download_result call for a result whose url is already the url of
\* an index entry returns at once: no detail fetch, no file, no directory,
\* no index entry, no success row and no failure row.
C2_IndexedResultSkipped ==
    [][ (pc = "download" /\ ~dry_run /\ UrlIsIndexed(Result.url)) =>
            /\ pc' \in {"download", "search", "save"}
            /\ files' = files
            /\ dirs' = dirs
            /\ index_data' = index_data
            /\ failures' = failures
            /\ successes' = successes
            /\ detailEnv' = detailEnv
            /\ fetchEnv' = fetchEnv ]_vars

\* the second of two links to the same url on one search page, the first of
\* which has been indexed in this run
C2_Witness ==
    /\ pc = "download"
    /\ ~dry_run
    /\ resIdx = 2
    /\ newer[1].url = newer[2].url
    /\ UrlIsIndexed(Result.url)
    /\ ~\E i \in DOMAIN Loaded : Loaded[i].url = Result.url

(* ------------------------------- C3 ------------------------------------ *)

DistinctUrls(items) ==
    \A i, j \in DOMAIN items : i # j => items[i].url # items[j].url

\* C3 as claimed: from a loaded index with pairwise distinct urls, no two
\* entries of the index ever have the same url.
C3_UrlsUnique == DistinctUrls(Loaded) => DistinctUrls(index_data)

\* two entries share a url only as the detail_html entry of a result
\* directly followed by the detail_markdown entry of the same result
UrlSharedOnlyByHtmlAndMarkdown(items) ==
    \A i, j \in DOMAIN items :
        (i < j /\ items[i].url = items[j].url) =>
            /\ j = i + 1
            /\ items[i].kind = "detail_html"
            /\ items[j].kind = "detail_markdown"
            /\ items[i].title = items[j].title
            /\ items[i].publish_time = items[j].publish_time

\* C3 (amended): from a loaded index in which two entries share a url only
\* as the detail_html and detail_markdown entries of one result, the index
\* stays so: the only entries that ever share a url are the detail_html
\* entry of a result and the detail_markdown entry recorded right after it.
C3_UrlsUniquePerResult ==
    UrlSharedOnlyByHtmlAndMarkdown(Loaded) => UrlSharedOnlyByHtmlAndMarkdown(index_data)

\* a page and its markdown are indexed under one url, and an attachment
\* whose url is indexed is about to be skipped
C3_Witness ==
    /\ pc = "attachments"
    /\ attIdx <= Len(detail_info.attachments)
    /\ UrlIsIndexed(attachment_url)
    /\ \E i \in DOMAIN index_data :
          /\ i > 1
          /\ index_data[i].kind = "detail_markdown"
          /\ index_data[i - 1].url = index_data[i].url

(* ------------------------------- C4 ------------------------------------ *)

DistinctHashes(items) ==
    \A i, j \in DOMAIN items : i # j => items[i].sha256 # items[j].sha256

\* C4: from a loaded index with pairwise distinct sha256 values, no two
\* entries of the index ever have the same sha256, whatever their kinds.
C4_HashesUnique == DistinctHashes(Loaded) => DistinctHashes(index_data)

\* a markdown file was written whose bytes are already indexed, next to at
\* least two entries
C4_Witness ==
    /\ pc = "md_hash"
    /\ Len(index_data) >= 2
    /\ \E i \in DOMAIN index_data : index_data[i].sha256 = Sha256(files[target_path])

(* ------------------------------- C5 ------------------------------------ *)

\* C5: a second run over the same rows, search results and fetched bytes,
\* loading the index the first run saved, appends no index entry and leaves
\* no new file on disk.
C5_SecondRunAddsNothing ==
    (run = 2 /\ pc = "done" /\ ~dry_run) =>
        /\ index_data = Loaded
        /\ files = files_at_start

(* ------------------------------- C6 ------------------------------------ *)

\* the bytes of the main content download_result wrote for the result url u
\* in this run ("" when it wrote none)
MainBytes(u) ==
    IF u \notin DOMAIN detailEnv \/ detailEnv[u].raises THEN ""
    ELSE IF detailEnv[u].html # NoHtml
         THEN IF <<u, "html">> \in DOMAIN writeEnv
                 /\ writeEnv[<<u, "html">>] \notin {"html_error", "html_write_error"}
              THEN detailEnv[u].html ELSE ""
         ELSE IF u \in DOMAIN fetchEnv /\ fetchEnv[u].status = "ok"
              THEN fetchEnv[u].bytes ELSE ""

ResultUrls == {PageUrl, FileUrl}

\* two results with distinct urls, neither indexed when the run started,
\* whose main content was fetched and is byte-identical and was not indexed
\* by hash when the run started
Twins(u, v) ==
    /\ u # v
    /\ MainBytes(u) # ""
    /\ MainBytes(u) = MainBytes(v)
    /\ \A i \in DOMAIN Loaded :
          /\ Loaded[i].url \notin {u, v}
          /\ Loaded[i].sha256 # Sha256(MainBytes(u))

Appended == SubSeq(index_data, Len(Loaded) + 1, Len(index_data))

NewFiles == (DOMAIN files) \ (DOMAIN files_at_start)

\* C6 as claimed: after both of two such results (with no attachments, and
\* nothing else downloaded in the run) were processed, exactly one file is
\* retained and exactly one index entry was appended.
C6_OneFileOneEntry ==
    \A u, v \in ResultUrls :
        ( /\ pc = "done"
          /\ Twins(u, v)
          /\ detailEnv[u].attachments = << >>
          /\ detailEnv[v].attachments = << >> ) =>
            /\ Len(Appended) = 1
            /\ Cardinality(NewFiles) = 1

MainKinds == {"detail_html", "direct_file"}

\* the position of the entry that carries the hash of the main content
MainEntry(u) ==
    CHOOSE i \in DOMAIN index_data : index_data[i].sha256 = Sha256(MainBytes(u))

\* the markdown of the main content, "" for a direct file
TwinMarkdown(u) ==
    IF index_data[MainEntry(u)].kind = "detail_html"
    THEN _html_to_markdown(MainBytes(u)) ELSE ""

\* what writing the markdown file of the result that recorded the main
\* content did ("none" when it was not tried)
TwinMarkdownWrite(u) ==
    LET key == <<index_data[MainEntry(u)].url, "md">>
    IN  IF TwinMarkdown(u) # "" /\ key \in DOMAIN writeEnv THEN writeEnv[key] ELSE "none"

\* the markdown is retained: it is not empty, its file was written, and no
\* entry up to the one of the main content carries its hash
TwinMarkdownRetained(u) ==
    /\ TwinMarkdown(u) # ""
    /\ TwinMarkdownWrite(u) = "ok"
    /\ \A i \in 1..MainEntry(u) : index_data[i].sha256 # Sha256(TwinMarkdown(u))

\* the file of the second of two such results has been written and is
\* about to be hashed
SecondAtHash(u, v) ==
    /\ Twins(u, v)
    /\ pc \in {"html_hash", "direct_hash"}
    /\ Result.url = v

\* C6 (amended), at the end of the run: the main content of two such
\* results is retained exactly once: exactly one index entry carries its
\* hash, a detail_html or direct_file entry of one of the two urls, and
\* exactly one file on disk, the one the entry names, holds these bytes.  A
\* detail_markdown entry of the two urls exists exactly when the markdown
\* is retained, and then it stands directly after the main entry, has its
\* url and names a file holding the markdown.  When the two results have
\* no attachments, the run appended these entries and no other, and left
\* one new file per entry, and one more, empty, exactly when the markdown
\* write failed after the file was opened.
C6_RetainedAtEnd ==
    \A u, v \in ResultUrls :
        (pc \in {"save", "done"} /\ Twins(u, v)) =>
            /\ Cardinality({i \in DOMAIN index_data :
                               index_data[i].sha256 = Sha256(MainBytes(u))}) = 1
            /\ index_data[MainEntry(u)].kind \in MainKinds
            /\ index_data[MainEntry(u)].url \in {u, v}
            /\ MainEntry(u) > Len(Loaded)
            /\ {p \in DOMAIN files : files[p] = MainBytes(u)}
                  = {index_data[MainEntry(u)].path}
            /\ {i \in DOMAIN index_data :
                    index_data[i].kind = "detail_markdown" /\ index_data[i].url \in {u, v}}
                  = IF TwinMarkdownRetained(u) THEN {MainEntry(u) + 1} ELSE {}
            /\ TwinMarkdownRetained(u) =>
                  /\ index_data[MainEntry(u) + 1].url = index_data[MainEntry(u)].url
                  /\ index_data[MainEntry(u) + 1].sha256 = Sha256(TwinMarkdown(u))
                  /\ files[index_data[MainEntry(u) + 1].path] = TwinMarkdown(u)
            /\ ( /\ pc = "done"
                 /\ detailEnv[u].attachments = << >>
                 /\ detailEnv[v].attachments = << >> ) =>
                    /\ Len(Appended) = IF TwinMarkdownRetained(u) THEN 2 ELSE 1
                    /\ Cardinality(NewFiles \cap {Appended[i].path : i \in DOMAIN Appended})
                          = Len(Appended)
                    /\ \A path \in NewFiles \ {Appended[i].path : i \in DOMAIN Appended} :
                          /\ files[path] = ""
                          /\ splitext(path.name)[2] = <<".", "m", "d">>
                    /\ Cardinality(NewFiles)
                          = Len(Appended)
                            + (IF TwinMarkdownWrite(u) = "md_write_error" THEN 1 ELSE 0)

\* C6 (amended): the above, and the entry is the one of the result
\* processed first: when the file of the second of the two results has
\* been written and is about to be hashed, it holds the same bytes, the
\* entry of the other result carries their hash, and the step removes the
\* file and appends no entry.
C6_MainContentRetainedOnce ==
    /\ []C6_RetainedAtEnd
    /\ [](\A u, v \in ResultUrls :
            SecondAtHash(u, v) =>
                /\ files[target_path] = MainBytes(u)
                /\ \E i \in DOMAIN index_data :
                      /\ index_data[i].url = u
                      /\ index_data[i].sha256 = Sha256(MainBytes(u)))
    /\ [][ (\E u, v \in ResultUrls : SecondAtHash(u, v)) =>
              /\ files' = RemoveFile(files, target_path)
              /\ index_data' = index_data ]_vars

\* both result urls served the same page with non-empty markdown, and the
\* run is over
C6_Witness ==
    /\ pc = "done"
    /\ Twins(PageUrl, FileUrl)
    /\ detailEnv[PageUrl].html = "<p>A</p>"
    /\ Len(Appended) = 2

(* ------------------------------- C7 ------------------------------------ *)

\* the path with _k inserted before the extension
WithSuffix(path, k) ==
    [dir |-> path.dir,
     name |-> splitext(path.name)[1] \o <<"_">> \o Decimal(k) \o splitext(path.name)[2]]

\* the path the write of the current step was asked to go to
AskedPath ==
    CASE pc = "main" /\ detail_info.html # NoHtml -> JoinPath(target_dir, HtmlName)
      [] pc = "main" /\ detail_info.html = NoHtml -> JoinPath(target_dir, DirectName)
      [] pc = "markdown" -> JoinPath(saved_path.dir, MarkdownName)
      [] pc = "attachments" -> JoinPath(target_dir, AttachmentName)

\* p is the asked path if nothing exists there, else the asked path with
\* the smallest suffix _k, k >= 1, at which nothing exists
IsFirstFreePath(asked, p) ==
    IF asked \notin DOMAIN files THEN p = asked
    ELSE \E k \in 1..(Cardinality(DOMAIN files) + 1) :
            /\ p = WithSuffix(asked, k)
            /\ p \notin DOMAIN files
            /\ \A j \in 1..(k - 1) : WithSuffix(asked, j) \in DOMAIN files

\* C7: no step changes the bytes of a file that exists, and every file a
\* step creates is at the asked path when nothing exists there, else at the
\* asked path with the smallest free suffix _k.
C7_NoOverwrite ==
    [][ /\ \A p \in (DOMAIN files) \cap (DOMAIN files') : files'[p] = files[p]
        /\ \A p \in (DOMAIN files') \ (DOMAIN files) : IsFirstFreePath(AskedPath, p) ]_vars

\* a file was written at doc_2.pdf because doc.pdf and doc_1.pdf exist
C7_Witness ==
    /\ pc = "attachment_hash"
    /\ target_path.name = <<"d", "o", "c", "_", "2", ".", "p", "d", "f">>
    /\ \E p, q \in DOMAIN files :
          /\ p.dir = target_path.dir
          /\ q.dir = target_path.dir
          /\ p.name = <<"d", "o", "c", ".", "p", "d", "f">>
          /\ q.name = <<"d", "o", "c", "_", "1", ".", "p", "d", "f">>

(* ------------------------------- C8 ------------------------------------ *)

\* C8: until the run has processed all rows the index file is what it was
\* when the run started and save_index has not been called; when the run is
\* over save_index has been called exactly once and the file holds the
\* in-memory index.
C8_SavedOnceAtEnd ==
    /\ pc \notin {"start", "done"} =>
          /\ saves = 0
          /\ index_file = index_file_at_start
    /\ pc = "done" =>
          /\ saves = 1
          /\ index_file = [exists |-> TRUE, items |-> index_data]

\* the second row is being searched while the entries the first row added
\* are in memory only
C8_Witness ==
    /\ pc = "search"
    /\ rowIdx = 2
    /\ Len(index_data) > Len(Loaded)
    /\ index_file = index_file_at_start

(* ------------------------------- C9 ------------------------------------ *)

\* C9: a run that has passed startup reaches the final save_index, whatever
\* searches, detail fetches, writes, downloads and attachments fail.
C9_RunReachesSave ==
    (pc \notin {"start", "done"}) ~> (pc = "done" /\ saves = 1)

\* a run is over in which a search, a result and a transfer failed and
\* something was downloaded
C9_Witness ==
    /\ pc = "done"
    /\ Reasons = {"search_error", "download_error"}
    /\ \E u \in DOMAIN fetchEnv : fetchEnv[u].status = "broken"
    /\ Len(index_data) > Len(Loaded)

(* ------------------------------- C10 ----------------------------------- *)

\* C10: when adapter.search raises for a row, exactly one failure row with
\* reason search_error is appended for that row, nothing is filtered or
\* downloaded for it, the index and the disk are unchanged, and the loop
\* goes on with the next row (or, after the last row, to save_index).
C10_SearchFailureSkipsRow ==
    [][ (pc = "search" /\ rowIdx \in DOMAIN searchEnv' /\ searchEnv'[rowIdx].raises) =>
            /\ failures' = Append(failures,
                                  [file_name |-> Rows[rowIdx].file_name,
                                   url |-> Rows[rowIdx].url,
                                   reason |-> "search_error"])
            /\ successes' = successes
            /\ index_data' = index_data
            /\ files' = files
            /\ dirs' = dirs
            /\ newer' = << >>
            /\ IF rowIdx < Len(Rows)
               THEN pc' = "search" /\ rowIdx' = rowIdx + 1
               ELSE pc' = "save" ]_vars

\* the search of the first row failed and a result of the second row is
\* being downloaded
C10_Witness ==
    /\ pc = "main"
    /\ rowIdx = 2
    /\ searchEnv[1].raises
    /\ failures = <<[file_name |-> Rows[1].file_name, url |-> Rows[1].url,
                     reason |-> "search_error"]>>

(* ------------------------------- C11 ----------------------------------- *)

\* the step being taken is one in which download_result raises: the detail
\* fetch, the write of the detail HTML or of its markdown, or the transfer
\* of the direct file fails
ResultRaises ==
    \/ /\ pc = "download"
       /\ ~dry_run
       /\ ~AlreadyDownloaded(Result.url)
       /\ Result.url \in DOMAIN detailEnv'
       /\ detailEnv'[Result.url].raises
    \/ /\ pc = "main"
       /\ detail_info.html # NoHtml
       /\ <<Result.url, "html">> \in DOMAIN writeEnv'
       /\ writeEnv'[<<Result.url, "html">>] \in {"html_error", "html_write_error"}
    \/ /\ pc = "markdown"
       /\ _html_to_markdown(detail_info.html) # ""
       /\ <<Result.url, "md">> \in DOMAIN writeEnv'
       /\ writeEnv'[<<Result.url, "md">>] \in {"md_error", "md_write_error"}
    \/ /\ pc = "main"
       /\ detail_info.html = NoHtml
       /\ ~IsIndexedUrl(Result.url)
       /\ Result.url \in DOMAIN fetchEnv'
       /\ fetchEnv'[Result.url].status # "ok"

\* control is at the next result of the row, else at the next row, else at
\* save_index
ControlAtNextResult ==
    IF resIdx < Len(newer)
    THEN pc' = "download" /\ resIdx' = resIdx + 1 /\ newer' = newer /\ rowIdx' = rowIdx
    ELSE IF rowIdx < Len(Rows)
         THEN pc' = "search" /\ rowIdx' = rowIdx + 1
         ELSE pc' = "save"

\* C11: when downloading a result raises, exactly one failure row for the
\* result's url (reason download_error) is appended, no success row is
\* written, and the run goes on with the next result of the row, or the
\* next row, or save_index.
C11_ResultFailureSkipsResult ==
    [][ ResultRaises =>
            /\ failures' = Append(failures,
                                  [file_name |-> Rows[rowIdx].file_name,
                                   url |-> newer[resIdx].url,
                                   reason |-> "download_error"])
            /\ successes' = successes
            /\ index_data' = index_data
            /\ ControlAtNextResult ]_vars

\* the first result of a row has failed and the second result of the same
\* row is inside download_result
C11_Witness ==
    /\ pc = "main"
    /\ resIdx = 2
    /\ failures # << >>
    /\ failures[Len(failures)] = [file_name |-> Rows[rowIdx].file_name,
                                  url |-> newer[1].url,
                                  reason |-> "download_error"]
    /\ newer[1].url # newer[2].url

(* ------------------------------- C12 ----------------------------------- *)

\* the step being taken is one in which the transfer of the current
\* attachment raises
AttachmentFails ==
    /\ InAttachments
    /\ attachment_url # ""
    /\ ~IsIndexedUrl(attachment_url)
    /\ attachment_url \in DOMAIN fetchEnv'
    /\ fetchEnv'[attachment_url].status # "ok"

\* the step being taken is the return of download_result after the loop
\* over the attachments
Returning == pc = "attachments" /\ attIdx > Len(detail_info.attachments)

\* the index entries download_result has recorded in the current call
RecordedInCall == SubSeq(index_data, items_at_call + 1, Len(index_data))

\* C12: a failing attachment does not end the result: no failure row is
\* written, nothing is removed from the index, what the call holds so far
\* (downloaded_any, main_path) is kept and the loop is at the next
\* attachment; and when the call returns, one success row for the result
\* is written if and only if the call recorded at least one index entry.
C12_AttachmentFailureContained ==
    [][ /\ AttachmentFails =>
              /\ failures' = failures
              /\ successes' = successes
              /\ index_data' = index_data
              /\ downloaded_any' = downloaded_any
              /\ main_path' = main_path
              /\ pc' = "attachments"
              /\ attIdx' = attIdx + 1
              /\ detail_info' = detail_info
              /\ resIdx' = resIdx
        /\ Returning =>
              /\ failures' = failures
              /\ index_data' = index_data
              /\ IF RecordedInCall # << >>
                 THEN /\ Len(successes') = Len(successes) + 1
                      /\ successes'[Len(successes')].url = newer[resIdx].url
                      /\ SubSeq(successes', 1, Len(successes)) = successes
                 ELSE successes' = successes ]_vars

\* the first attachment of a result has failed, the second one was
\* transferred and is about to be hashed
C12_Witness ==
    /\ pc = "attachment_hash"
    /\ attIdx = 2
    /\ detail_info.attachments = <<AttPadded, AttMirror>>
    /\ FileUrl \notin existing_urls
    /\ FileUrl \in DOMAIN fetchEnv
    /\ fetchEnv[FileUrl].status = "broken"

(* ------------------------------- C13 ----------------------------------- *)

\* the step being taken is one of the silent outcomes: the result's url or
\* the attachment's url is indexed, the hash of the file just written is
\* indexed, the markdown conversion is empty, or fetch_detail_info returned
\* no HTML (as the rule-driven adapter does when its trim rules find no
\* body fragment and fallback is off)
SilentOutcome ==
    \/ /\ pc = "download"
       /\ ~dry_run
       /\ AlreadyDownloaded(Result.url)
    \/ /\ InAttachments
       /\ attachment_url # ""
       /\ IsIndexedUrl(attachment_url)
    \/ /\ pc \in HashPoints
       /\ IsDuplicateHash(sha256_file(files, target_path))
    \/ /\ pc = "markdown"
       /\ _html_to_markdown(detail_info.html) = ""
    \/ /\ pc = "download"
       /\ ~dry_run
       /\ ~AlreadyDownloaded(Result.url)
       /\ Result.url \in DOMAIN detailEnv'
       /\ ~detailEnv'[Result.url].raises
       /\ detailEnv'[Result.url].html = NoHtml

\* the step being taken is one in which adapter.search raises
SearchFails ==
    /\ pc = "search"
    /\ rowIdx \in DOMAIN searchEnv'
    /\ searchEnv'[rowIdx].raises

\* C13: no silent outcome appends a failure row, and every failure row is
\* appended by a step in which the search or the download of a result
\* raises.
C13_SilentOutcomesAreNotFailures ==
    [][ /\ SilentOutcome => failures' = failures
        /\ failures' # failures => SearchFails \/ ResultRaises ]_vars

\* a run is over without any failure row in which a result's url and an
\* attachment's url were found indexed, a transferred attachment was removed
\* as a duplicate by hash and a page's markdown was empty
C13_Witness ==
    /\ pc = "done"
    /\ failures = << >>
    /\ Len(index_data) = 2
    /\ index_data[1].url = FileUrl
    /\ index_data[1].sha256 = Sha256("%PDF")
    /\ index_data[2].kind = "detail_html"
    /\ detailEnv[PageUrl].html = "<script>x</script>"
    /\ MirrorUrl \in DOMAIN fetchEnv
    /\ fetchEnv[MirrorUrl] = [status |-> "ok", bytes |-> "%PDF"]
    /\ 2 \in DOMAIN searchEnv
    /\ searchEnv[2].results # << >>
    /\ Cardinality(DOMAIN files) = 2

(* ------------------------------- C14 ----------------------------------- *)

\* the step being taken ends the iteration of the loop over newer results
EndsResult == pc' \notin CallPoints

\* number of results that passed the freshness filter in the rows searched
\* so far
RECURSIVE FreshCount(_)
FreshCount(row) ==
    IF row = 0 THEN 0
    ELSE FreshCount(row - 1)
         + (IF row \in DOMAIN searchEnv
            THEN Len(filter_newer_results(searchEnv[row].results, Rows[row].publish_time))
            ELSE 0)

\* C14: in a non-dry run the iteration for one fresh result appends to the
\* two logs only in its last step, and there one row at most: the failure
\* row (download_error) when download_result raises, the success row when
\* it returns having recorded at least one index entry, and nothing when it
\* returns without having recorded any.
C14_OneAuditRecordPerResult ==
    [][ (pc \in CallPoints \cup {"download"} /\ ~dry_run) =>
            IF ~EndsResult
            THEN failures' = failures /\ successes' = successes
            ELSE IF ResultRaises
            THEN /\ failures' = Append(failures,
                                       [file_name |-> Rows[rowIdx].file_name,
                                        url |-> newer[resIdx].url,
                                        reason |-> "download_error"])
                 /\ successes' = successes
            ELSE IF Returning /\ RecordedInCall # << >>
            THEN /\ successes' = Append(successes,
                                        [file_name |-> Rows[rowIdx].file_name,
                                         url |-> newer[resIdx].url,
                                         path |-> main_path,
                                         folder_path |-> target_dir,
                                         publish_time |-> newer[resIdx].publish_time])
                 /\ failures' = failures
            ELSE failures' = failures /\ successes' = successes ]_vars

\* a run is over in which, of four fresh results, one was reported as a
\* success, one as a failure and two were not reported
C14_Witness ==
    /\ pc = "done"
    /\ ~dry_run
    /\ FreshCount(Len(Rows)) = 4
    /\ Len(successes) = 1
    /\ Len(failures) = 1
    /\ failures[1].reason = "download_error"

(* ------------------------------- C15 ----------------------------------- *)

\* the index entries recorded for the file at `path`
EntriesAt(path) == {j \in DOMAIN index_data : index_data[j].path = path}

\* C15: every success row names a main path that is a file on disk with an
\* index entry of the row's url: a detail_markdown entry if the result has
\* one, else its detail_html or direct_file entry.
C15_SuccessNamesRetainedFile ==
    \A i \in DOMAIN successes :
        /\ successes[i].path # NoPath
        /\ successes[i].path \in DOMAIN files
        /\ \E j \in EntriesAt(successes[i].path) :
              /\ index_data[j].url = successes[i].url
              /\ index_data[j].sha256 = Sha256(files[successes[i].path])
              /\ IF \E k \in DOMAIN index_data :
                       /\ index_data[k].url = successes[i].url
                       /\ index_data[k].kind = "detail_markdown"
                 THEN index_data[j].kind = "detail_markdown"
                 ELSE index_data[j].kind \in {"detail_html", "direct_file"}

(* ------------------------------- C16 ----------------------------------- *)

\* C16: the registry's keys are lower-cased domains, each domain's adapter
\* is the object the first call for the domain constructed (one object was
\* constructed per key), and any two calls whose urls have the same
\* lower-cased domain returned the same object.
C16_OneAdapterPerDomain ==
    /\ DOMAIN _adapters = {lower(netloc(ensure_calls[i].url)) : i \in DOMAIN ensure_calls}
    /\ adapter_count = Cardinality(DOMAIN _adapters)
    /\ \A i \in DOMAIN ensure_calls :
          /\ ensure_calls[i].returned = _adapters[lower(netloc(ensure_calls[i].url))]
          /\ \A j \in DOMAIN ensure_calls :
                lower(netloc(ensure_calls[i].url)) = lower(netloc(ensure_calls[j].url))
                    => ensure_calls[i].returned = ensure_calls[j].returned

\* three calls for the domain a.example, in two spellings and asking for
\* two adapter classes, and one call for another domain
C16_Witness ==
    /\ Len(ensure_calls) = 4
    /\ ensure_calls[1].url = "https://A.Example/list"
    /\ ensure_calls[2].url = "https://a.example/search?q={query}"
    /\ ensure_calls[3].url = "http://B.EXAMPLE:8080/x"
    /\ ensure_calls[4].url = "https://A.Example/list"
    /\ ensure_calls[1].returned.class = "GenericHtmlAdapter"
    /\ ensure_calls[4].returned.id = 1
    /\ adapter_count = 2

(* ------------------------------- C17 ----------------------------------- *)

\* C17: when fetching a detail page for the date backfill fails, in either
\* fetch mode, search does not raise: the result keeps its absent
\* publish_time and the backfill is at the next result.
C17_BackfillFailureSwallowed ==
    [][ (InBackfill /\ detail_fetch' = "raised") =>
            /\ search_state' = "backfill"
            /\ search_idx' = search_idx + 1
            /\ search_results' = search_results
            /\ search_results[search_idx].publish_time = NoTime ]_vars

(* ------------------------------- C18 ----------------------------------- *)

\* a step that leaves the file just hashed on disk: the artifact is retained
RetainsArtifact == pc \in HashPoints /\ target_path \in DOMAIN files'

\* the list grows by one entry at its end
AppendsOne ==
    /\ Len(index_data') = Len(index_data) + 1
    /\ SubSeq(index_data', 1, Len(index_data)) = index_data

\* C18: during a run the loaded entries stay the head of the in-memory
\* index, unchanged and in order; a step changes the list only by appending
\* one entry, which it does exactly when it retains an artifact, the entry
\* naming that file and its hash; and the list save_index writes is the
\* loaded list followed by the appended entries in the order of recording.
C18_IndexAppendOnly ==
    /\ [](pc # "start" => SubSeq(index_data, 1, Len(Loaded)) = Loaded)
    /\ [][ pc \notin {"start", "done"} =>
            /\ index_data' = index_data \/ AppendsOne
            /\ RetainsArtifact <=> AppendsOne
            /\ RetainsArtifact =>
                  /\ index_data'[Len(index_data')].path = target_path
                  /\ index_data'[Len(index_data')].sha256 = sha256_file(files, target_path)
            /\ pc = "save" => index_file'.items = Loaded \o Appended ]_vars

\* a run that loaded an entry has appended two more and saved all three
C18_Witness ==
    /\ pc = "done"
    /\ Len(Loaded) = 1
    /\ Len(index_file.items) = 3
    /\ index_file.items[1] = Loaded[1]

(* ------------------------------- C19 ----------------------------------- *)

\* C19: in a dry run fetch_detail_info is never asked, nothing is fetched
\* or written, the files and folders are those the run found, the
\* in-memory index is the loaded one, there is no success row and no
\* download failure row, and the index written at the end is the loaded
\* index; a candidate that passed the freshness filter is passed over
\* without entering download_result.
C19_DryRunDownloadsNothing ==
    /\ [](dry_run =>
            /\ detailEnv = << >> /\ fetchEnv = << >> /\ writeEnv = << >>
            /\ files = files_at_start
            /\ dirs = {path.dir : path \in DOMAIN files_at_start}
            /\ pc # "start" => index_data = Loaded
            /\ successes = << >>
            /\ Reasons \subseteq {"search_error"}
            /\ pc = "done" => index_file.items = Loaded)
    /\ [][ (dry_run /\ pc = "download") =>
            /\ pc' \in {"download", "search", "save"}
            /\ UNCHANGED <<index_data, durable, frame, env>> ]_vars

\* a dry run that loaded an entry has passed over the first candidate of a
\* row and is at the second
C19_Witness ==
    /\ dry_run
    /\ pc = "download"
    /\ resIdx = 2
    /\ Len(Loaded) = 1

(* ------------------------------- C20 ----------------------------------- *)

\* str.split("\n\n") of the output
RECURSIVE Segments(_)
Segments(chars) ==
    LET at == {i \in 1..(Len(chars) - 1) : chars[i] = "\n" /\ chars[i + 1] = "\n"}
        first == CHOOSE i \in at : \A j \in at : i <= j
    IN  IF at = {} THEN <<chars>>
        ELSE <<SubSeq(chars, 1, first - 1)>> \o Segments(SubSeq(chars, first + 2, Len(chars)))

\* the output has an empty segment between two separators or at an end
HasEmptySegment(chars) ==
    chars # << >> /\ \E i \in DOMAIN Segments(chars) : Segments(chars)[i] = << >>

\* the number of line breaks the document can put into a line: its br
\* elements and the newlines of its link targets
RECURSIVE LineBreaks(_)
LineBreaks(node) ==
    LET RECURSIVE sum(_)
        sum(counts) == IF counts = << >> THEN 0 ELSE counts[1] + sum(Tail(counts))
    IN  (IF node.name = "br" THEN 1 ELSE 0)
        + Cardinality({i \in DOMAIN node.href : node.href[i] = "\n"})
        + sum([i \in DOMAIN node.children |-> LineBreaks(node.children[i])])

\* the document holds script elements and nothing else
OnlyScript(soup) ==
    /\ soup.children # << >>
    /\ \A i \in DOMAIN soup.children : soup.children[i].name = "script"

\* the clauses of C20 about the two named inputs and about repetition:
\* every call with this HTML has returned what the last one returned
ConvertsAsDocumented ==
    /\ \A i \in DOMAIN md_outs : md_outs[i] = md_out
    /\ md_html = BeautifulSoup("<p>A</p><p>B</p>") => Str(md_out) = "A\n\nB"
    /\ OnlyScript(md_html) => Str(md_out) = ""

\* `lines` when walk(root) has returned
Lines(soup) == walk(root(decompose(soup)))

\* the line holds four line breaks in a row
HasFourBreaks(line) ==
    \E i \in 1..(Len(line) - 3) : \A j \in 0..3 : line[i + j] = "\n"

\* the number of line breaks in the lines
RECURSIVE BreaksIn(_)
BreaksIn(lines) ==
    IF lines = << >> THEN 0
    ELSE Cardinality({i \in DOMAIN lines[1] : lines[1][i] = "\n"}) + BreaksIn(Tail(lines))

\* C20 as stated: converting again gives the same output, <p>A</p><p>B</p>
\* gives A and B joined by a blank line, a document of script elements gives
\* the empty string, and no output has an empty segment between separators.
C20_NoEmptySegment ==
    md_state = "converted" => ConvertsAsDocumented /\ ~HasEmptySegment(md_out)

\* C20 amended: as stated, except that every line that is joined is
\* non-empty and an output has an empty segment exactly when one of its
\* lines holds four line breaks in a row; and the lines hold no more line
\* breaks than the document has br elements and newlines in link targets.
C20_NoEmptySegmentWithoutBreaks ==
    md_state = "converted" =>
        /\ ConvertsAsDocumented
        /\ \A i \in DOMAIN Lines(md_html) : Lines(md_html)[i] # << >>
        /\ HasEmptySegment(md_out)
              <=> \E i \in DOMAIN Lines(md_html) : HasFourBreaks(Lines(md_html)[i])
        /\ BreaksIn(Lines(md_html)) <= LineBreaks(md_html)

\* the paragraph A, four br, B was converted twice, to one line with an
\* empty segment between A and B
C20_Witness ==
    /\ md_state = "converted"
    /\ Len(md_outs) = 2
    /\ Len(md_html.children) = 1
    /\ LineBreaks(md_html) = 4
    /\ Len(Lines(md_html)) = 1
    /\ Str(md_out) = "A\n\n\n\nB"
    /\ Segments(md_out) = << <<"A">>, << >>, <<"B">> >>

(* ------------------------------- C21 ----------------------------------- *)

\* the path is that of a markdown file
IsMarkdownPath(path) == splitext(path.name)[2] = <<".", "m", "d">>

\* the detail HTML of the result at hand is the one entry its call recorded
HtmlJustRecorded ==
    /\ saved_path # NoPath
    /\ Len(index_data) = items_at_call + 1
    /\ index_data[Len(index_data)].kind = "detail_html"
    /\ index_data[Len(index_data)].url = Result.url
    /\ index_data[Len(index_data)].path = saved_path

\* C21: every detail_markdown entry appended in the run stands directly
\* after the detail_html entry of the same url, and the HTML of that result
\* converts to a non-empty string; the conversion is attempted only with the
\* detail HTML of the result recorded as the call's first entry; and a step
\* puts a markdown file on disk only then, and only when the conversion is
\* not empty.
C21_MarkdownOnlyAfterRetainedHtml ==
    /\ [](\A i \in DOMAIN Appended :
            Appended[i].kind = "detail_markdown" =>
                /\ i > 1
                /\ Appended[i - 1].kind = "detail_html"
                /\ Appended[i - 1].url = Appended[i].url
                /\ _html_to_markdown(detailEnv[Appended[i].url].html) # "")
    /\ [](pc \in {"markdown", "md_hash"} => HtmlJustRecorded)
    /\ [][ (\E path \in (DOMAIN files') \ (DOMAIN files) : IsMarkdownPath(path)) =>
              /\ pc = "markdown"
              /\ HtmlJustRecorded
              /\ _html_to_markdown(detail_info.html) # "" ]_vars

\* an earlier result's HTML was recorded with its markdown; the HTML of the
\* result at hand was rejected as a duplicate and the call is at its
\* attachments with nothing recorded
C21_Witness ==
    /\ pc = "attachments"
    /\ detail_info.html # NoHtml
    /\ saved_path = NoPath
    /\ Len(index_data) = items_at_call
    /\ \E i \in DOMAIN Appended : Appended[i].kind = "detail_markdown"

(* ------------------------------- C22 ----------------------------------- *)

\* a step of the backfill that fetches the detail page of the result at hand
FetchesDetail == InBackfill /\ detail_fetch' # "none"

\* C22: the backfill fetches a detail page only for a result that has no
\* publish_time, with backfill enabled, whose url is not a downloadable
\* file; it fetches at most once per result (the loop never returns to a
\* result); only the publish_time of the result at hand changes, and only
\* from absent.
C22_BackfillOnlyWhenNeeded ==
    [][ search_state = "backfill" =>
            /\ search_idx' >= search_idx
            /\ FetchesDetail =>
                  /\ search_results[search_idx].publish_time = NoTime
                  /\ search_rules.enabled
                  /\ ~_is_attachment_url(search_results[search_idx].url)
                  /\ search_idx' = search_idx + 1 \/ search_state' = "raised"
            /\ \A i \in DOMAIN search_results :
                  search_results'[i] # search_results[i] =>
                      /\ i = search_idx
                      /\ search_results[i].publish_time = NoTime
                      /\ search_results'[i] =
                            [search_results[i] EXCEPT !.publish_time = DetailTime] ]_vars

(* ------------------------------- C23 ----------------------------------- *)

\* the dates that the matches of either pattern in the link's text, its
\* parent's text and its href parse to
ParsedDates(link) ==
    LET words == link.link_text \o parent_text(link) \o <<link.href>>
        matches == UNION { {findall(regex, <<words[i]>>)[k] :
                                k \in DOMAIN findall(regex, <<words[i]>>)} :
                           regex \in {1, 2}, i \in DOMAIN words }
    IN  {date_parser_parse(m) : m \in matches} \ {NoTime}

\* C23: the result appended for a kept link has the greatest of the dates
\* parsed from the matches in the link text, the parent's text and the
\* href as its publish_time, and an absent publish_time exactly when no
\* match parses; a match that does not parse takes nothing from the others.
C23_PublishTimeIsLatestDate ==
    [][ Len(gs_results') = Len(gs_results) + 1 =>
            LET publish_time == gs_results'[Len(gs_results')].publish_time
                parsed == ParsedDates(gs_links[gs_idx])
            IN  /\ publish_time = NoTime <=> parsed = {}
                /\ parsed # {} =>
                      /\ publish_time \in parsed
                      /\ \A dt \in parsed : dt <= publish_time ]_vars

\* a result whose date is the later of two dates, found beside a match that
\* does not parse, and a result without a date
C23_Witness ==
    /\ gs_state = "returned"
    /\ Len(gs_results) = 2
    /\ gs_links[1].link_text = <<"T", "2024-01-05">>
    /\ gs_links[1].siblings = <<"T", "2024/1/7">>
    /\ gs_results[1].publish_time = RefTime + 7 * SecondsPerDay
    /\ gs_links[2].siblings = <<"2024-13-45">>
    /\ gs_results[2].publish_time = NoTime

(* ------------------------------- C24 ----------------------------------- *)

\* C24: when the metadata of the remote file of the same name cannot be
\* fetched, the sync goes on: it does not fail, the loop is at the next item
\* of the folder, the old remote file has been renamed unless the rename
\* itself returned an error, and then the local file has been uploaded
\* unless the upload returned an error.
C24_MetadataFailureOverwrites ==
    [][ (InSync /\ sy_items[sy_idx].remote = "meta_fails") =>
            /\ sy_state' = "items"
            /\ sy_idx' = sy_idx + 1
            /\ sy_items[sy_idx].rename_ok =>
                  \E k \in DOMAIN sy_ops' :
                      sy_ops'[k].op = "rename" /\ sy_ops'[k].item = sy_idx
            /\ (sy_items[sy_idx].rename_ok /\ sy_items[sy_idx].upload_ok) =>
                  sy_ops'[Len(sy_ops')] = [op |-> "upload", item |-> sy_idx, date |-> NoTime]
      ]_vars

(* ------------------------------- C25 ----------------------------------- *)

\* the entries at positions i < j have the same url
SharesUrl(i, j) == i < j /\ index_data[i].url = index_data[j].url

\* C25: whenever an entry appended during the run has the url of another
\* entry of the index, the two are the detail_html entry and the
\* detail_markdown entry that one call of download_result recorded one after
\* the other, both during this run; so no direct_file or attachment entry
\* appended during the run shares its url with any entry.
C25_UrlSharedOnlyByHtmlAndMarkdown ==
    pc # "start" =>
        \A i, j \in DOMAIN index_data :
            (SharesUrl(i, j) /\ j > Len(Loaded)) =>
                /\ i > Len(Loaded)
                /\ j = i + 1
                /\ index_data[i].kind = "detail_html"
                /\ index_data[j].kind = "detail_markdown"
                /\ index_data[i].path.dir = index_data[j].path.dir

\* a run has recorded a page with its markdown under one url and an
\* attachment under another
C25_Witness ==
    /\ pc = "done"
    /\ \E i, j \in DOMAIN index_data : SharesUrl(i, j) /\ j > Len(Loaded)
    /\ \E k \in DOMAIN index_data : k > Len(Loaded) /\ index_data[k].kind = "attachment"

(* ------------------------------- C26 ----------------------------------- *)

\* the entry names a file that exists and whose SHA-256 is the entry's
MatchesDisk(entry) ==
    /\ entry.path \in DOMAIN files
    /\ sha256_file(files, entry.path) = entry.sha256

\* C26: at every point of a run after the index was loaded, each entry
\* appended during the run names a path at which a file exists whose SHA-256
\* is the entry's sha256, and no two entries appended during the run name
\* the same path.
C26_IndexAgreesWithDisk ==
    pc # "start" =>
        /\ \A i \in DOMAIN Appended : MatchesDisk(Appended[i])
        /\ \A i, j \in DOMAIN Appended : i # j => Appended[i].path # Appended[j].path

\* the run is over with two recorded files whose asked names collided: the
\* second was written at doc_1.pdf and both are still what was recorded
C26_Witness ==
    /\ pc = "done"
    /\ \E i, j \in DOMAIN Appended :
          /\ Appended[i].path.name = <<"d", "o", "c", ".", "p", "d", "f">>
          /\ Appended[j].path.name = <<"d", "o", "c", "_", "1", ".", "p", "d", "f">>
          /\ Appended[i].path.dir = Appended[j].path.dir

(* ------------------------------- C27 ----------------------------------- *)

\* the paths of the entries appended during the run
RecordedPaths == {Appended[i].path : i \in DOMAIN Appended}

\* C27: when a run is over, every file that is on disk under the download
\* root and was not there when the run started is named by an index entry
\* appended during the run.
C27_NoUnrecordedFile == pc = "done" => NewFiles \subseteq RecordedPaths

(* ------------------------------- C28 ----------------------------------- *)

\* download_result raises in this step, after it recorded an artifact
RaisesAfterRecording ==
    /\ pc \in CallPoints
    /\ Len(index_data) > items_at_call
    /\ ResultRaises

\* C28: when download_result raises after it recorded an artifact, the step
\* leaves the index as it is and appends a failure row for the result, whose
\* url is then in the index; what a finished run has in its index is what
\* it saved to the index file; and in a later run no result whose url is in
\* the loaded index gets past the url check of download_result.
C28_NoRollback ==
    /\ [][ RaisesAfterRecording =>
              /\ index_data' = index_data
              /\ failures' = Append(failures, FailureRow(Result.url, "download_error"))
              /\ Result.url \in IndexedUrls(RecordedInCall) ]_vars
    /\ [](pc = "done" => (index_file.exists /\ index_file.items = index_data))
    /\ []((run > 1 /\ pc \in CallPoints) => Result.url \notin IndexedUrls(Loaded))

\* a later run is at a result that failed in the run before: the failure row
\* is there, the loaded index has the result's detail_html entry and no
\* detail_markdown entry, and the url check is about to skip the result
C28_Witness ==
    /\ run = 2
    /\ pc = "download"
    /\ ~dry_run
    /\ \E i \in DOMAIN failures :
          failures[i].url = Result.url /\ failures[i].reason = "download_error"
    /\ \E i \in DOMAIN Loaded :
          Loaded[i].url = Result.url /\ Loaded[i].kind = "detail_html"
    /\ \A i \in DOMAIN Loaded :
          Loaded[i].url = Result.url => Loaded[i].kind # "detail_markdown"
    /\ successes = << >>

(* ------------------------------- C29 ----------------------------------- *)

\* the position of the first row searched that has the domain of row j
FirstOfDomain(j) ==
    CHOOSE i \in 1..j :
        /\ lower(netloc(row_searches[i].url)) = lower(netloc(row_searches[j].url))
        /\ \A k \in 1..(i - 1) :
              lower(netloc(row_searches[k].url)) # lower(netloc(row_searches[j].url))

\* C29: every row is searched by the adapter constructed from the url,
\* search template, adapter kind and rule configuration of the first row of
\* its domain, and the url requested is the one that adapter builds from the
\* row's keyword.
C29_FirstRowWins ==
    \A j \in DOMAIN row_searches :
        /\ row_searches[j].adapter = AdapterOfRow(row_searches[FirstOfDomain(j)].url)
        /\ row_searches[j].request =
              _build_url(AdapterOfRow(row_searches[FirstOfDomain(j)].url),
                         row_searches[j].file_name)

\* a row with a query url and one keyword was searched after a row of the
\* same domain, spelled differently, with another keyword: the request is
\* the first row's template with the second row's keyword
C29_Witness ==
    /\ Len(row_searches) >= 2
    /\ row_searches[1].url = "https://A.Example/list"
    /\ row_searches[1].file_name = "law"
    /\ row_searches[2].url = "https://a.example/search?q={query}"
    /\ row_searches[2].file_name = "tax law"
    /\ row_searches[2].request = "https://a.example/s?k=tax+law"

(* ------------------------------- C30 ----------------------------------- *)

\* the task's process has ended, or could not be started
Ended(k) == tasks[k].proc \in {"exited", "failed"}

StartDisabled == buttons.main = "disabled" /\ buttons.upload = "disabled"

StartEnabled == buttons.main = "normal" /\ buttons.upload = "normal"

\* C30: at most one worker process is running at any time; while a task
\* that was started has not ended, both start buttons are disabled; and
\* once the process of the task started last has ended or could not be
\* started, there comes a time at which both start buttons are enabled,
\* before another task is started.
C30_OneWorkerAtATime ==
    /\ [](Cardinality({k \in DOMAIN tasks : tasks[k].proc = "running"}) <= 1)
    /\ [](\A k \in DOMAIN tasks : ~Ended(k) => StartDisabled)
    /\ \A k \in 1..MaxTasks :
          (Len(tasks) = k /\ Ended(k)) ~> (Len(tasks) = k /\ Ended(k) /\ StartEnabled)

\* a second task was started after the first was stopped and had ended, and
\* the buttons are enabled again after the second has ended
C30_Witness ==
    /\ Len(tasks) = 2
    /\ tasks[1].stopped
    /\ tasks[1].proc = "exited"
    /\ tasks[2].proc = "exited"
    /\ tasks[1].exe # tasks[2].exe
    /\ StartEnabled

====
